---- MODULE Spec2Model ----
(***************************************************************************)
(* State-machine model of the CVL server (server entry point, kept under   *)
(* src/unnamed/part_000): the SQLite tables the handlers read and write,   *)
(* and one process per in-flight HTTP request.  Every `await` of a handler *)
(* is a point where other requests may run, so each handler is cut into    *)
(* one action per awaited store / network operation.                       *)
(***************************************************************************)
EXTENDS Integers, Sequences, FiniteSets, Bags, TLC

VARIABLES
  clock,               \* Date.now(), in milliseconds
  ticks,               \* number of clock advances so far (bounds the run)
  VAPID_PUBLIC_KEY,    \* process.env.VAPID_PUBLIC_KEY || ""
  VAPID_PRIVATE_KEY,   \* process.env.VAPID_PRIVATE_KEY || ""
  webpushModule,       \* TRUE iff import("web-push") succeeds
  poll,                \* table poll, row id = index
  poll_votes,          \* table poll_votes, a bag of rows (the id column is never read)
  ideas,               \* table ideas, row id = index
  idea_seen,           \* history: idea_seen[i] = id of the row the lookup of idea i returned (0: none)
  push_subscriptions,  \* table push_subscriptions, rows in rowid order
  daily_connections,   \* table daily_connections, a set of rows keyed by (day, device_hash)
  vote,                \* in-flight POST /api/public/poll/:id/vote requests
  adm,                 \* in-flight admin requests (POST /api/admin/poll, POST /api/push/send)
  rd,                  \* in-flight GET /api/public/poll requests
  idea,                \* in-flight POST /api/public/ideas requests
  news,                \* table news, row id = index
  ADMIN_PASSWORD_HASH, \* process.env.ADMIN_PASSWORD_HASH || ""
  issued,              \* history: the tokens signAdminToken returned, with the time of signing
  login,               \* in-flight POST /api/auth/login requests
  req,                 \* requests as the middleware chain in front of the routes answered them
  hits,                \* publicLimiter: requests counted in the current window
  info_blocks,         \* table info_blocks, one row per key
  logout,              \* POST /api/auth/logout requests as they were answered
  cache,               \* the browser's Cache storage as the service worker filled it
  sw                   \* fetch events the service worker is handling

vars == << clock, ticks, VAPID_PUBLIC_KEY, VAPID_PRIVATE_KEY, webpushModule,
           poll, poll_votes, ideas, idea_seen, push_subscriptions,
           daily_connections, vote, adm, rd, idea,
           news, ADMIN_PASSWORD_HASH, issued, login, req, hits,
           info_blocks, logout, cache, sw >>

\* the info table, logout, and the service worker on the client
edge == << info_blocks, logout, cache, sw >>

\* authentication and the middleware chain
front == << ADMIN_PASSWORD_HASH, issued, login, req, hits, edge >>

(***************************************************************************)
(* Bounds of the model                                                     *)
(***************************************************************************)
\* rows the poll table may reach
MaxPolls == 2
\* clock advances in one run
MaxTicks == 2
\* push endpoints that may subscribe
NEndpoints == 2
\* rows the news table may reach
MaxNews == 1

\* request processes; a vote / admin / reader process serves one request
\* after the other, an idea process stands for one submission
VoteSlots == { 1, 2 }
AdmSlots == { 1, 2 }
RdSlots == { 1 }
IdeaSlots == { 1, 2, 3 }
LoginSlots == { 1 }
ReqSlots == { 1, 2, 3, 4 }
SwSlots == { 1 }

(***************************************************************************)
(* Program constants                                                       *)
(***************************************************************************)
IDEA_COOLDOWN_SEC == 60
MsPerSec == 1000
MsPerDay == 86400000
OptionIndexMax == 50
OptionsMin == 2
OptionsMax == 8
OptionLabelMax == 60
QuestionMin == 5
QuestionMax == 140
IdeaTextMin == 10
IdeaTextMax == 500
HpMax == 5
EndpointMin == 10
EndpointMax == 2000
KeyMin == 10
KeyMax == 300
PushTitleMax == 60
PushBodyMax == 180
NewsTitleMin == 3
NewsTitleMax == 80
NewsDescMin == 10
NewsDescMax == 800
ExpiresInSec == 28800
PasswordMin == 6
PasswordMax == 128
DeviceIdMin == 8
DeviceIdMax == 200
PublicLimit == 60
InfoTextMin == 10
InfoTextMax == 1200
InfoUrlMax == 300
IdeasListLimit == 500
StatsPollsLimit == 10
StatsDaysBack == 13

(***************************************************************************)
(* Helpers                                                                 *)
(***************************************************************************)
\* strings are sequences of one-character strings
\* sanitizeHtml(s, {allowedTags: []}): drops everything from "<" to the next ">"
RECURSIVE StripTags(_, _)
StripTags(s, inTag) ==
  IF s = << >> THEN << >>
  ELSE IF inTag
       THEN StripTags(Tail(s), Head(s) # ">")
       ELSE IF Head(s) = "<"
            THEN StripTags(Tail(s), TRUE)
            ELSE << Head(s) >> \o StripTags(Tail(s), FALSE)

RECURSIVE TrimLeft(_)
TrimLeft(s) ==
  IF s # << >> /\ Head(s) = " " THEN TrimLeft(Tail(s)) ELSE s

RECURSIVE TrimRight(_)
TrimRight(s) ==
  IF s # << >> /\ s[Len(s)] = " " THEN TrimRight(SubSeq(s, 1, Len(s) - 1)) ELSE s

cleanText(str, maxLen) ==
  LET cleaned == TrimRight(TrimLeft(StripTags(str, FALSE)))
  IN IF Len(cleaned) > maxLen THEN SubSeq(cleaned, 1, maxLen) ELSE cleaned

\* crypto sha256 hex digest, taken as collision free
sha256(input) == << "sha256", input >>

\* new Date().toISOString() keeps the millisecond; Date.parse reads it back
nowIso == [iso |-> clock]
DateParse(s) == s.iso

\* JSON.stringify / JSON.parse of values the server itself serialised
JSONstringify(v) == [json |-> v]
JSONparse(s) == s.json

\* a configuration test that looks at the public key only
PublicKeyOnly == VAPID_PUBLIC_KEY # ""

\* Boolean(VAPID_PUBLIC_KEY && VAPID_PRIVATE_KEY)
canUsePushConfig == VAPID_PUBLIC_KEY # "" /\ VAPID_PRIVATE_KEY # ""

\* body(f).isInt({min, max})
isInt(x, min, max) == x \in Int /\ x >= min /\ x <= max

\* body(f).isString().isLength({min, max})
isLength(s, min, max) == Len(s) >= min /\ Len(s) <= max

(***************************************************************************)
(* Inputs                                                                  *)
(***************************************************************************)
DeviceIds == { "device-A", "device-B" }

LabelOui == << "O", "u", "i" >>
LabelNon == << " ", "N", "o", "n" >>
LabelBold == << "<", "b", ">", "?", "<", "/", "b", ">" >>
OptionInputs == { << LabelNon >>, << LabelOui, LabelBold >> }
QuestionInputs == { << "Q", "u", "o", "i", " ", "?" >>, << "Q", "?" >> }
OptionIndexInputs == { -1, 0, 2 }

TextOk == << "P", "l", "u", "s", " ", "d", "e", " ", "<", "b", ">", "b", "a", "n", "c", "s" >>
TextShort == << "b", "o", "f" >>
IdeaBodies ==
  { [ text |-> TextOk, category |-> "cantine", urgency |-> "basse", hp |-> << >> ],
    [ text |-> TextShort, category |-> "cantine", urgency |-> "basse", hp |-> << >> ],
    [ text |-> TextOk, category |-> "sport", urgency |-> "basse", hp |-> << >> ],
    [ text |-> TextOk, category |-> "cantine", urgency |-> "basse", hp |-> << "b", "o", "t" >> ] }
TickSteps == { 500, 59500 }

Endpoint(k) == << "h", "t", "t", "p", "s", ":", "/", "/", "p", "/", k >>
KeyOf(c) == [ k \in 1..10 |-> c ]
SubscriptionInputs ==
  { [ endpoint |-> Endpoint(k), keys |-> [ p256dh |-> KeyOf("p"), auth |-> KeyOf("a") ] ]
      : k \in 1..NEndpoints }
  \cup { [ endpoint |-> << "x" >>, keys |-> [ p256dh |-> KeyOf("p"), auth |-> KeyOf("a") ] ] }
PushBodies == { [ title |-> << "I", "n", "f", "o" >>, body |-> << "<", "i", ">", "1", "2", "h" >> ],
                [ title |-> << >>, body |-> << "1", "2", "h" >> ] }
NewsBodies ==
  { [ title |-> << "B", "a", "l", " ", "<", "i", ">", "d", "u", " ", "C", "V", "L" >>,
      description |-> << "S", "a", "m", "e", "d", "i", " ", "2", "0", "h", " ", "!" >> ],
    [ title |-> << "B", "a" >>,
      description |-> << "S", "a", "m", "e", "d", "i", " ", "2", "0", "h", " ", "!" >> ] }
\* the title of the notification sent after a news insert
NewsPushTitle == << "N", "o", "u", "v", "e", "l", "l", "e", " ",
                    "a", "c", "t", "u", "a", "l", "i", "t", "e" >>
\* what webpush.sendNotification ends with: 201, or the statusCode of the
\* error it rejects with (0: an error without statusCode)
DeliveryOutcomes == { 201, 404, 410, 500, 0 }

(***************************************************************************)
(* Request records                                                         *)
(***************************************************************************)
\* ops: the statements the request has issued against the store so far, in
\* order ("read" for a SELECT, "write" for an INSERT, UPDATE or DELETE)
IdleVote == [ pc |-> "idle", deviceHash |-> << >>, pollId |-> 0, idx |-> 0,
              created_at |-> [iso |-> 0], status |-> 0, had |-> FALSE,
              ops |-> << >> ]

\* result: what sendPushToAll returned (returned = FALSE: not called, still
\* running, or it threw); log: one entry per loop iteration; interf: endpoints
\* written by other requests since this dispatch read the table
NoResult == [ returned |-> FALSE, sent |-> 0, failed |-> 0, disabled |-> FALSE, reason |-> "" ]

IdleAdm == [ kind |-> "", pc |-> "idle", question |-> << >>, options |-> << >>,
             created_at |-> [iso |-> 0], status |-> 0, payload |-> << >>,
             subs |-> << >>, i |-> 0, sent |-> 0, failed |-> 0,
             result |-> NoResult, log |-> << >>, interf |-> {}, ops |-> << >> ]

IdleRd == [ pc |-> "idle", deviceHash |-> << >>, p |-> 0, npolls |-> 0,
            status |-> 0, active |-> 0, results |-> << >>, ops |-> << >> ]

IdleIdea == [ pc |-> "idle", deviceHash |-> << >>, last |-> 0,
              text |-> << >>, category |-> "", urgency |-> "",
              created_at |-> [iso |-> 0], status |-> 0, retry_after_sec |-> 0,
              ops |-> << >> ]

\* a login request: the password received, and the cookie its response sets
\* (<< >>: no Set-Cookie header)
IdleLogin == [ pc |-> "idle", password |-> << >>, status |-> 0, setCookie |-> << >> ]

\* a logout request: the time it was answered at, and whether its response
\* clears the session cookie
IdleLogout == [ pc |-> "idle", at |-> 0, status |-> 0, clearCookie |-> FALSE ]

\* a request in front of its route: what it carried, the time it arrived at,
\* and what the middleware chain made of it (status 0: no answer yet; next:
\* the route handler was called)
IdleReq == [ pc |-> "idle", route |-> "", bodyOk |-> TRUE, deviceId |-> << >>,
             token |-> << >>, at |-> 0, status |-> 0, deviceHash |-> << >>,
             admin |-> FALSE, next |-> FALSE, setCookie |-> << >> ]

(***************************************************************************)
(* POST /api/public/poll/:id/vote                                          *)
(***************************************************************************)
\* rows of poll_votes with this (poll_id, voter_hash)
VoteRows(pollId, voterHash) ==
  { x \in BagToSet(poll_votes) : x.poll_id = pollId /\ x.voter_hash = voterHash }

HasVote(pollId, voterHash) == VoteRows(pollId, voterHash) # {}

\* an option test that is off by one
OptionInvalidOffByOne(idx, options) == idx < 0 \/ idx > Len(options)

\* the option test of the handler
OptionInvalid(idx, options) == idx < 0 \/ idx >= Len(options)

\* what the handler answers once SELECT ... FROM poll WHERE id = ? resolved:
\* 0 stands for "go on to the INSERT"
VoteCheck(pollId, optionIndex) ==
  IF ~ isInt(optionIndex, 0, OptionIndexMax) THEN 400
  ELSE IF pollId \notin DOMAIN poll THEN 404
  ELSE IF poll[pollId].active = 0 THEN 404
  ELSE IF OptionInvalid(optionIndex, JSONparse(poll[pollId].options_json)) THEN 400
  ELSE 0

\* a handler that reads the poll before it looks at the validation errors
SelectBeforeValidation(valid) == TRUE

\* if (errors) return res.status(400): the SELECT of the poll is issued only
\* when the validators passed
SelectIssued(valid) == valid

\* request arrives: device middleware, validator, SELECT of the poll, option
\* test; the INSERT is issued with created_at = nowIso()
VoteStart(v, deviceId, pollId, optionIndex) ==
  /\ vote[v].pc \in { "idle", "done" }
  /\ LET st == VoteCheck(pollId, optionIndex)
         base == [ IdleVote EXCEPT !.deviceHash = sha256(deviceId),
                                   !.pollId = pollId,
                                   !.idx = optionIndex,
                                   !.had = HasVote(pollId, sha256(deviceId)),
                                   !.ops = IF SelectIssued(isInt(optionIndex, 0, OptionIndexMax))
                                           THEN << "read" >> ELSE << >> ]
     IN IF st # 0
        THEN vote' = [ vote EXCEPT ![v] = [ base EXCEPT !.pc = "done", !.status = st ] ]
        ELSE vote' = [ vote EXCEPT ![v] = [ base EXCEPT !.pc = "insert",
                                                        !.created_at = nowIso ] ]
  /\ UNCHANGED << clock, ticks, VAPID_PUBLIC_KEY, VAPID_PRIVATE_KEY, webpushModule,
                  poll, poll_votes, ideas, idea_seen, push_subscriptions,
                  daily_connections, adm, rd, idea, news, front >>

\* a table without the UNIQUE constraint
NoUniqueConstraint(pollId, voterHash) == FALSE

\* UNIQUE(poll_id, voter_hash) of table poll_votes
UniqueViolation(pollId, voterHash) == HasVote(pollId, voterHash)

\* a catch block that swallows the rejection
CatchSwallowed == 200

\* the status of the catch block around the INSERT
CatchStatus == 409

\* INSERT INTO poll_votes resolves or rejects; any rejection is answered 409
VoteInsert(v, storeOk) ==
  /\ vote[v].pc = "insert"
  /\ LET r == vote[v]
     IN IF storeOk /\ ~ UniqueViolation(r.pollId, r.deviceHash)
        THEN /\ poll_votes' = poll_votes (+) SetToBag({
                                [ poll_id |-> r.pollId, option_index |-> r.idx,
                                  voter_hash |-> r.deviceHash, created_at |-> r.created_at ] })
             /\ vote' = [ vote EXCEPT ![v].pc = "done", ![v].status = 200,
                                      ![v].ops = Append(@, "write") ]
        ELSE /\ poll_votes' = poll_votes
             /\ vote' = [ vote EXCEPT ![v].pc = "done", ![v].status = CatchStatus,
                                      ![v].ops = Append(@, "write") ]
  /\ UNCHANGED << clock, ticks, VAPID_PUBLIC_KEY, VAPID_PRIVATE_KEY, webpushModule,
                  poll, ideas, idea_seen, push_subscriptions,
                  daily_connections, adm, rd, idea, news, front >>

(***************************************************************************)
(* POST /api/admin/poll                                                    *)
(***************************************************************************)
InFlightPolls == Cardinality({ a \in DOMAIN adm :
                                 adm[a].kind = "poll" /\ adm[a].pc \in { "update", "insert" } })

PollBodyValid(question, options) ==
  /\ isLength(question, QuestionMin, QuestionMax)
  /\ Len(options) >= OptionsMin /\ Len(options) <= OptionsMax
  /\ \A k \in DOMAIN options : isLength(options[k], 1, OptionLabelMax)

\* request arrives: validators, cleanText, UPDATE issued
PollStart(a, question, options) ==
  /\ adm[a].pc \in { "idle", "done" }
  /\ Len(poll) + InFlightPolls < MaxPolls
  /\ IF ~ PollBodyValid(question, options)
     THEN adm' = [ adm EXCEPT ![a] = [ IdleAdm EXCEPT !.kind = "poll", !.pc = "done",
                                                       !.status = 400 ] ]
     ELSE adm' = [ adm EXCEPT ![a] =
                     [ IdleAdm EXCEPT !.kind = "poll", !.pc = "update",
                                      !.question = cleanText(question, QuestionMax),
                                      !.options = [ k \in DOMAIN options |->
                                                      cleanText(options[k], OptionLabelMax) ] ] ]
  /\ UNCHANGED << clock, ticks, VAPID_PUBLIC_KEY, VAPID_PRIVATE_KEY, webpushModule,
                  poll, poll_votes, ideas, idea_seen, push_subscriptions,
                  daily_connections, vote, rd, idea, news, front >>

\* an UPDATE that also empties the options of the rows it deactivates
DeactivatedAndEmptied(rows) ==
  [ k \in DOMAIN rows |-> [ rows[k] EXCEPT !.active = 0,
                                           !.options_json = JSONstringify(<< >>) ] ]

\* UPDATE poll SET active = 0 WHERE active = 1
Deactivated(rows) == [ k \in DOMAIN rows |-> [ rows[k] EXCEPT !.active = 0 ] ]

PollDeactivate(a) ==
  /\ adm[a].kind = "poll" /\ adm[a].pc = "update"
  /\ poll' = Deactivated(poll)
  /\ adm' = [ adm EXCEPT ![a].pc = "insert", ![a].created_at = nowIso,
                         ![a].ops = Append(@, "write") ]
  /\ UNCHANGED << clock, ticks, VAPID_PUBLIC_KEY, VAPID_PRIVATE_KEY, webpushModule,
                  poll_votes, ideas, idea_seen, push_subscriptions,
                  daily_connections, vote, rd, idea, news, front >>

\* INSERT INTO poll(..., active = 1); then the auto-push when configured
PollInsert(a) ==
  /\ adm[a].kind = "poll" /\ adm[a].pc = "insert"
  /\ poll' = Append(poll, [ question |-> adm[a].question,
                            options_json |-> JSONstringify(adm[a].options),
                            active |-> 1,
                            created_at |-> adm[a].created_at ])
  /\ IF canUsePushConfig
     THEN adm' = [ adm EXCEPT ![a].pc = "init", ![a].ops = Append(@, "write") ]
     ELSE adm' = [ adm EXCEPT ![a].pc = "done", ![a].status = 200,
                              ![a].ops = Append(@, "write") ]
  /\ UNCHANGED << clock, ticks, VAPID_PUBLIC_KEY, VAPID_PRIVATE_KEY, webpushModule,
                  poll_votes, ideas, idea_seen, push_subscriptions,
                  daily_connections, vote, rd, idea, news, front >>

(***************************************************************************)
(* POST /api/admin/news                                                    *)
(***************************************************************************)
InFlightNews == Cardinality({ a \in DOMAIN adm :
                                adm[a].kind = "news" /\ adm[a].pc = "insert" })

NewsBodyValid(b) ==
  /\ isLength(b.title, NewsTitleMin, NewsTitleMax)
  /\ isLength(b.description, NewsDescMin, NewsDescMax)

\* request arrives: validators, cleanText, INSERT issued with created_at =
\* nowIso(); the cleaned title and description travel in the request record
NewsStart(a, b) ==
  /\ adm[a].pc \in { "idle", "done" }
  /\ Len(news) + InFlightNews < MaxNews
  /\ IF ~ NewsBodyValid(b)
     THEN adm' = [ adm EXCEPT ![a] = [ IdleAdm EXCEPT !.kind = "news", !.pc = "done",
                                                       !.status = 400 ] ]
     ELSE adm' = [ adm EXCEPT ![a] =
                     [ IdleAdm EXCEPT !.kind = "news", !.pc = "insert",
                                      !.question = cleanText(b.title, NewsTitleMax),
                                      !.options = << cleanText(b.description, NewsDescMax) >>,
                                      !.created_at = nowIso ] ]
  /\ UNCHANGED << clock, ticks, VAPID_PUBLIC_KEY, VAPID_PRIVATE_KEY, webpushModule,
                  poll, poll_votes, ideas, idea_seen, push_subscriptions,
                  daily_connections, vote, rd, idea, news, front >>

\* the INSERT resolved; then the auto-push when the VAPID keys are set: the
\* first line of sendPushToAll passes and the lazy import is awaited.  The
\* result of sendPushToAll is not looked at: res.json({ ok: true })
NewsInsert(a) ==
  /\ adm[a].kind = "news" /\ adm[a].pc = "insert"
  /\ news' = Append(news, [ title |-> adm[a].question,
                            description |-> adm[a].options[1],
                            created_at |-> adm[a].created_at ])
  /\ IF canUsePushConfig
     THEN adm' = [ adm EXCEPT ![a].pc = "init",
                              ![a].ops = Append(@, "write"),
                              ![a].payload = [ title |-> NewsPushTitle,
                                               body |-> adm[a].question,
                                               url |-> "/#actualites", tag |-> "news",
                                               ts |-> nowIso ] ]
     ELSE adm' = [ adm EXCEPT ![a].pc = "done", ![a].status = 200,
                              ![a].ops = Append(@, "write") ]
  /\ UNCHANGED << clock, ticks, VAPID_PUBLIC_KEY, VAPID_PRIVATE_KEY, webpushModule,
                  poll, poll_votes, ideas, idea_seen, push_subscriptions,
                  daily_connections, vote, rd, idea, front >>

(***************************************************************************)
(* GET /api/public/poll                                                    *)
(***************************************************************************)
ActiveIds == { k \in DOMAIN poll : poll[k].active = 1 }

MaxOf(S) == CHOOSE x \in S : \A y \in S : y <= x

\* request arrives: device middleware; the tally upsert is issued
ReadStart(r, deviceId) ==
  /\ rd[r].pc \in { "idle", "done" }
  /\ rd' = [ rd EXCEPT ![r] = [ IdleRd EXCEPT !.pc = "tally", !.deviceHash = sha256(deviceId) ] ]
  /\ UNCHANGED << clock, ticks, VAPID_PUBLIC_KEY, VAPID_PRIVATE_KEY, webpushModule,
                  poll, poll_votes, ideas, idea_seen, push_subscriptions,
                  daily_connections, vote, adm, idea, news, front >>

\* a statement without a catch: what follows runs only if it resolved
NoCatch(storeOk) == storeOk

\* try { await run(...) } catch (_) {}: what follows runs whether the
\* statement resolved or was rejected
BestEffort(storeOk) == TRUE

\* INSERT INTO daily_connections ... ON CONFLICT(day, device_hash) DO UPDATE
Upserted(rows, day, deviceHash, lastSeen) ==
  { x \in rows : ~ (x.day = day /\ x.device_hash = deviceHash) }
    \cup { [ day |-> day, device_hash |-> deviceHash, last_seen |-> lastSeen ] }

\* the daily connections middleware: failures of the upsert are swallowed
ReadTally(r, storeOk) ==
  /\ rd[r].pc = "tally"
  /\ daily_connections' = IF storeOk
                          THEN Upserted(daily_connections, clock \div MsPerDay,
                                        rd[r].deviceHash, nowIso)
                          ELSE daily_connections
  /\ rd' = IF BestEffort(storeOk)
           THEN [ rd EXCEPT ![r].pc = "get", ![r].ops = Append(@, "write") ]
           ELSE [ rd EXCEPT ![r].pc = "done", ![r].status = 500,
                            ![r].ops = Append(@, "write") ]
  /\ UNCHANGED << clock, ticks, VAPID_PUBLIC_KEY, VAPID_PRIVATE_KEY, webpushModule,
                  poll, poll_votes, ideas, idea_seen, push_subscriptions,
                  vote, adm, idea, news, front >>

\* SELECT ... FROM poll WHERE active = 1 ORDER BY id DESC LIMIT 1
ReadPoll(r) ==
  /\ rd[r].pc = "get"
  /\ IF ActiveIds = {}
     THEN rd' = [ rd EXCEPT ![r].pc = "done", ![r].status = 200, ![r].active = 0,
                            ![r].npolls = Len(poll), ![r].ops = Append(@, "read") ]
     ELSE rd' = [ rd EXCEPT ![r].pc = "counts", ![r].p = MaxOf(ActiveIds),
                            ![r].npolls = Len(poll), ![r].ops = Append(@, "read") ]
  /\ UNCHANGED << clock, ticks, VAPID_PUBLIC_KEY, VAPID_PRIVATE_KEY, webpushModule,
                  poll, poll_votes, ideas, idea_seen, push_subscriptions,
                  daily_connections, vote, adm, idea, news, front >>

\* SELECT option_index, COUNT(*) ... WHERE poll_id = ? GROUP BY option_index
VotesFor(pollId, idx) ==
  BagCardinality([ x \in { y \in BagToSet(poll_votes) :
                              y.poll_id = pollId /\ y.option_index = idx }
                   |-> poll_votes[x] ])

VotesTotal(pollId) ==
  BagCardinality([ x \in { y \in BagToSet(poll_votes) : y.poll_id = pollId }
                   |-> poll_votes[x] ])

\* Math.round((votes / total) * 100)
Percent(votes, total) == IF total = 0 THEN 0 ELSE (200 * votes + total) \div (2 * total)

ReadCounts(r) ==
  /\ rd[r].pc = "counts"
  /\ LET p == poll[rd[r].p]
         options == JSONparse(p.options_json)
         total == VotesTotal(rd[r].p)
     IN rd' = [ rd EXCEPT ![r].pc = "done", ![r].status = 200, ![r].active = 1,
                          ![r].ops = Append(@, "read"),
                          ![r].results = [ k \in DOMAIN options |->
                             [ label |-> options[k],
                               votes |-> VotesFor(rd[r].p, k - 1),
                               percent |-> Percent(VotesFor(rd[r].p, k - 1), total) ] ] ]
  /\ UNCHANGED << clock, ticks, VAPID_PUBLIC_KEY, VAPID_PRIVATE_KEY, webpushModule,
                  poll, poll_votes, ideas, idea_seen, push_subscriptions,
                  daily_connections, vote, adm, idea, news, front >>

(***************************************************************************)
(* POST /api/public/ideas                                                  *)
(***************************************************************************)
Categories == { "vie-scolaire", "cantine", "ecologie", "clubs-evenements", "materiel", "autre" }
Urgencies == { "basse", "moyenne", "haute" }

IdeaBodyValid(b) ==
  /\ isLength(b.text, IdeaTextMin, IdeaTextMax)
  /\ b.category \in Categories
  /\ b.urgency \in Urgencies
  /\ isLength(b.hp, 0, HpMax)

\* (req.body.hp || "").trim() !== ""
HoneypotFilled(b) == TrimRight(TrimLeft(b.hp)) # << >>

\* the lookup without its WHERE clause: the most recent idea of any device
LastIdeaOfAnyone(deviceHash) == Len(ideas)

\* SELECT created_at FROM ideas WHERE device_hash = ? ORDER BY id DESC LIMIT 1
\* (0 when the device has no row)
LastIdeaOf(deviceHash) ==
  LET mine == { k \in DOMAIN ideas : ideas[k].device_hash = deviceHash }
  IN IF mine = {} THEN 0 ELSE MaxOf(mine)

\* request arrives: device middleware, validators, honeypot, lookup of the
\* device's most recent idea
IdeaStart(i, deviceId, b) ==
  /\ idea[i].pc = "idle"
  /\ IF ~ IdeaBodyValid(b) \/ HoneypotFilled(b)
     THEN idea' = [ idea EXCEPT ![i] = [ IdleIdea EXCEPT !.pc = "done", !.status = 400,
                                                         !.deviceHash = sha256(deviceId) ] ]
     ELSE idea' = [ idea EXCEPT ![i] =
                      [ IdleIdea EXCEPT !.pc = "check",
                                        !.ops = << "read" >>,
                                        !.deviceHash = sha256(deviceId),
                                        !.text = b.text,
                                        !.category = b.category,
                                        !.urgency = b.urgency,
                                        !.last = LastIdeaOf(sha256(deviceId)) ] ]
  /\ UNCHANGED << clock, ticks, VAPID_PUBLIC_KEY, VAPID_PRIVATE_KEY, webpushModule,
                  poll, poll_votes, ideas, idea_seen, push_subscriptions,
                  daily_connections, vote, adm, rd, news, front >>

\* rounding down instead of up
FloorDiv(a, b) == a \div b

\* Math.ceil(a / b) for b > 0
CeilDiv(a, b) == - ((- a) \div b)

\* Math.ceil(IDEA_COOLDOWN_SEC - diff), diff = diffMs / 1000
Remaining(diffMs) == CeilDiv(IDEA_COOLDOWN_SEC * MsPerSec - diffMs, MsPerSec)

\* a test that lets the last second of the window through
CooldownActiveLate(remaining) == remaining > 1

\* a test that still refuses at the very end of the window
CooldownActiveInclusive(remaining) == remaining >= 0

\* if (remaining > 0)
CooldownActive(remaining) == remaining > 0

\* the lookup resolved: cooldown test against Date.now(); INSERT issued with
\* created_at = nowIso()
IdeaCheck(i) ==
  /\ idea[i].pc = "check"
  /\ LET last == idea[i].last
         diffMs == clock - DateParse(ideas[last].created_at)
     IN IF last # 0 /\ CooldownActive(Remaining(diffMs))
        THEN idea' = [ idea EXCEPT ![i].pc = "done", ![i].status = 429,
                                   ![i].retry_after_sec = Remaining(diffMs),
                                   ![i].text = << >>, ![i].category = "",
                                   ![i].urgency = "", ![i].last = 0 ]
        ELSE idea' = [ idea EXCEPT ![i].pc = "insert",
                                   ![i].text = cleanText(idea[i].text, IdeaTextMax),
                                   ![i].created_at = nowIso ]
  /\ UNCHANGED << clock, ticks, VAPID_PUBLIC_KEY, VAPID_PRIVATE_KEY, webpushModule,
                  poll, poll_votes, ideas, idea_seen, push_subscriptions,
                  daily_connections, vote, adm, rd, news, front >>

\* INSERT INTO ideas resolves; res.json({ ok: true })
IdeaInsert(i) ==
  /\ idea[i].pc = "insert"
  /\ ideas' = Append(ideas, [ text |-> idea[i].text, category |-> idea[i].category,
                              urgency |-> idea[i].urgency, status |-> "nouveau",
                              device_hash |-> idea[i].deviceHash,
                              created_at |-> idea[i].created_at ])
  /\ idea_seen' = Append(idea_seen, idea[i].last)
  /\ idea' = [ idea EXCEPT ![i] = [ IdleIdea EXCEPT !.pc = "done", !.status = 200,
                                                    !.ops = Append(idea[i].ops, "write"),
                                                    !.deviceHash = idea[i].deviceHash ] ]
  /\ UNCHANGED << clock, ticks, VAPID_PUBLIC_KEY, VAPID_PRIVATE_KEY, webpushModule,
                  poll, poll_votes, push_subscriptions,
                  daily_connections, vote, adm, rd, news, front >>

\* time passes
Tick(dt) ==
  /\ ticks < MaxTicks
  /\ clock' = clock + dt
  /\ ticks' = ticks + 1
  /\ UNCHANGED << VAPID_PUBLIC_KEY, VAPID_PRIVATE_KEY, webpushModule,
                  poll, poll_votes, ideas, idea_seen, push_subscriptions,
                  daily_connections, vote, adm, rd, idea, news, front >>

(***************************************************************************)
(* POST /api/push/subscribe                                                *)
(***************************************************************************)
SubscriptionValid(sub) ==
  /\ isLength(sub.endpoint, EndpointMin, EndpointMax)
  /\ isLength(sub.keys.p256dh, KeyMin, KeyMax)
  /\ isLength(sub.keys.auth, KeyMin, KeyMax)

StoredEndpoints == { push_subscriptions[k].endpoint : k \in DOMAIN push_subscriptions }

\* INSERT INTO push_subscriptions ... ON CONFLICT(endpoint) DO UPDATE: the
\* row keeps its place (rowid) when the endpoint is already stored
UpsertSubscription(rows, row) ==
  IF \E k \in DOMAIN rows : rows[k].endpoint = row.endpoint
  THEN [ k \in DOMAIN rows |->
           IF rows[k].endpoint = row.endpoint
           THEN [ row EXCEPT !.created_at = rows[k].created_at ]
           ELSE rows[k] ]
  ELSE Append(rows, row)

\* dispatches that have read the table and whose view the write interferes with
Interfered(reqs, endpoint) ==
  [ a \in DOMAIN reqs |->
      IF reqs[a].pc \in { "send", "prune", "done" } /\ reqs[a].result.disabled = FALSE
      THEN [ reqs[a] EXCEPT !.interf = @ \cup { endpoint } ]
      ELSE reqs[a] ]

\* the whole handler: validators (400), one upsert, res.json({ ok: true })
Subscribe(deviceId, sub) ==
  /\ SubscriptionValid(sub)
  /\ push_subscriptions' =
        UpsertSubscription(push_subscriptions,
                           [ endpoint |-> sub.endpoint,
                             subscription_json |-> JSONstringify(sub),
                             device_hash |-> sha256(deviceId),
                             created_at |-> nowIso, updated_at |-> nowIso ])
  /\ adm' = Interfered(adm, sub.endpoint)
  /\ UNCHANGED << clock, ticks, VAPID_PUBLIC_KEY, VAPID_PRIVATE_KEY, webpushModule,
                  poll, poll_votes, ideas, idea_seen,
                  daily_connections, vote, rd, idea, news, front >>

\* a subscription request that fails the validators is answered 400
SubscribeRejected(deviceId, sub) ==
  /\ ~ SubscriptionValid(sub)
  /\ UNCHANGED vars

(***************************************************************************)
(* sendPushToAll and POST /api/push/send                                   *)
(***************************************************************************)
PushBodyValid(b) ==
  /\ isLength(b.title, 1, PushTitleMax)
  /\ isLength(b.body, 1, PushBodyMax)

\* what the caller answers once sendPushToAll returned
StatusAfterPush(kind, result) ==
  IF kind = "send" /\ result.disabled THEN 501 ELSE 200

Returned(r, result) ==
  [ r EXCEPT !.pc = "done", !.result = result,
             !.status = StatusAfterPush(r.kind, result) ]

\* request arrives: validators, payload, first line of sendPushToAll
PushSendStart(a, b) ==
  /\ adm[a].pc \in { "idle", "done" }
  /\ LET base == [ IdleAdm EXCEPT !.kind = "send" ]
     IN IF ~ PushBodyValid(b)
        THEN adm' = [ adm EXCEPT ![a] = [ base EXCEPT !.pc = "done", !.status = 400 ] ]
        ELSE LET r == [ base EXCEPT !.payload = [ title |-> cleanText(b.title, PushTitleMax),
                                                 body |-> cleanText(b.body, PushBodyMax),
                                                 url |-> "/", tag |-> "cvl",
                                                 ts |-> nowIso ] ]
             IN IF ~ canUsePushConfig
                THEN adm' = [ adm EXCEPT ![a] =
                                Returned(r, [ returned |-> TRUE, sent |-> 0, failed |-> 0,
                                              disabled |-> TRUE, reason |-> "missing_vapid" ]) ]
                ELSE adm' = [ adm EXCEPT ![a] = [ r EXCEPT !.pc = "init" ] ]
  /\ UNCHANGED << clock, ticks, VAPID_PUBLIC_KEY, VAPID_PRIVATE_KEY, webpushModule,
                  poll, poll_votes, ideas, idea_seen, push_subscriptions,
                  daily_connections, vote, rd, idea, news, front >>

\* await initWebPushIfConfigured(): the lazy import of web-push
PushInit(a) ==
  /\ adm[a].pc = "init"
  /\ IF ~ webpushModule
     THEN adm' = [ adm EXCEPT ![a] =
                     Returned(adm[a], [ returned |-> TRUE, sent |-> 0, failed |-> 0,
                                        disabled |-> TRUE,
                                        reason |-> "missing_webpush_module" ]) ]
     ELSE adm' = [ adm EXCEPT ![a].pc = "all" ]
  /\ UNCHANGED << clock, ticks, VAPID_PUBLIC_KEY, VAPID_PRIVATE_KEY, webpushModule,
                  poll, poll_votes, ideas, idea_seen, push_subscriptions,
                  daily_connections, vote, rd, idea, news, front >>

\* the loop is over: return { sent, failed, disabled: false }
LoopEnd(r) ==
  Returned(r, [ returned |-> TRUE, sent |-> r.sent, failed |-> r.failed,
                disabled |-> FALSE, reason |-> "" ])

\* a loop that gives up at the first failed delivery
LoopBreak(i, n, outcome) == IF outcome = 201 THEN i + 1 ELSE n + 1

\* for (const s of subs): the next index, whatever the outcome
LoopNext(i, n, outcome) == i + 1

\* move the loop on after the iteration on subs[r.i]
Advance(r, outcome) ==
  LET j == LoopNext(r.i, Len(r.subs), outcome)
  IN IF j > Len(r.subs) THEN LoopEnd([ r EXCEPT !.i = j ])
     ELSE [ r EXCEPT !.i = j, !.pc = "send" ]

\* SELECT endpoint, subscription_json FROM push_subscriptions resolves (rows
\* in rowid order) or rejects; a rejection is thrown to the caller, whose
\* async handler has no catch: no answer, or 500 from the error handler
PushAll(a, storeOk, thrownStatus) ==
  /\ adm[a].pc = "all"
  /\ IF ~ storeOk
     THEN adm' = [ adm EXCEPT ![a].pc = "done", ![a].status = thrownStatus,
                              ![a].ops = Append(@, "read") ]
     ELSE LET subs == [ k \in DOMAIN push_subscriptions |->
                          [ endpoint |-> push_subscriptions[k].endpoint,
                            subscription_json |-> push_subscriptions[k].subscription_json ] ]
          IN adm' = [ adm EXCEPT ![a] =
                        IF subs = << >>
                        THEN LoopEnd([ adm[a] EXCEPT !.ops = Append(@, "read") ])
                        ELSE [ adm[a] EXCEPT !.pc = "send", !.subs = subs, !.i = 1,
                                             !.ops = Append(@, "read") ] ]
  /\ UNCHANGED << clock, ticks, VAPID_PUBLIC_KEY, VAPID_PRIVATE_KEY, webpushModule,
                  poll, poll_votes, ideas, idea_seen, push_subscriptions,
                  daily_connections, vote, rd, idea, news, front >>

\* JSON.parse throws on a payload that is not JSON text
Parsable(s) == DOMAIN s = { "json" }

\* a test that forgets 404
GoneOnly410(status) == status = 410

\* a test that takes every failed delivery for a gone endpoint
GoneAnyFailure(status) == TRUE

\* status === 404 || status === 410
Gone(status) == status = 404 \/ status = 410

\* one loop iteration up to the end of sendNotification: parse, send, count
PushDeliver(a, outcome) ==
  /\ adm[a].pc = "send"
  /\ LET r == adm[a]
         s == r.subs[r.i]
     IN IF ~ Parsable(s.subscription_json)
        THEN adm' = [ adm EXCEPT ![a] =
                        Advance([ r EXCEPT !.failed = @ + 1,
                                           !.log = Append(@, [ endpoint |-> s.endpoint,
                                                               outcome |-> -1,
                                                               pruned |-> "none" ]) ], -1) ]
        ELSE IF outcome = 201
        THEN adm' = [ adm EXCEPT ![a] =
                        Advance([ r EXCEPT !.sent = @ + 1,
                                           !.log = Append(@, [ endpoint |-> s.endpoint,
                                                               outcome |-> outcome,
                                                               pruned |-> "none" ]) ], outcome) ]
        ELSE LET f == [ r EXCEPT !.failed = @ + 1,
                                 !.log = Append(@, [ endpoint |-> s.endpoint,
                                                     outcome |-> outcome,
                                                     pruned |-> "none" ]) ]
             IN IF Gone(outcome)
                THEN adm' = [ adm EXCEPT ![a] = [ f EXCEPT !.pc = "prune" ] ]
                ELSE adm' = [ adm EXCEPT ![a] = Advance(f, outcome) ]
  /\ UNCHANGED << clock, ticks, VAPID_PUBLIC_KEY, VAPID_PRIVATE_KEY, webpushModule,
                  poll, poll_votes, ideas, idea_seen, push_subscriptions,
                  daily_connections, vote, rd, idea, news, front >>

\* DELETE FROM push_subscriptions WHERE endpoint = ?
WithoutEndpoint(rows, endpoint) == SelectSeq(rows, LAMBDA x : x.endpoint # endpoint)

\* the prune of a gone endpoint: the DELETE resolves, or rejects and is swallowed
PushPrune(a, storeOk) ==
  /\ adm[a].pc = "prune"
  /\ LET r == adm[a]
         s == r.subs[r.i]
         n == Len(r.log)
     IN /\ push_subscriptions' = IF storeOk
                                 THEN WithoutEndpoint(push_subscriptions, s.endpoint)
                                 ELSE push_subscriptions
        /\ adm' = [ b \in DOMAIN adm |->
                      IF b = a
                      THEN IF BestEffort(storeOk)
                           THEN Advance([ r EXCEPT !.log[n].pruned =
                                                      IF storeOk THEN "ok" ELSE "failed",
                                                   !.ops = Append(@, "write") ],
                                        r.log[n].outcome)
                           ELSE [ r EXCEPT !.pc = "done", !.status = 500,
                                           !.ops = Append(@, "write") ]
                      ELSE IF storeOk THEN Interfered(adm, s.endpoint)[b] ELSE adm[b] ]
  /\ UNCHANGED << clock, ticks, VAPID_PUBLIC_KEY, VAPID_PRIVATE_KEY, webpushModule,
                  poll, poll_votes, ideas, idea_seen,
                  daily_connections, vote, rd, idea, news, front >>

(***************************************************************************)
(* Session tokens, requireAdmin and POST /api/auth/login                   *)
(***************************************************************************)
\* process.env.JWT_SECRET || "change-me-in-prod"
JWT_SECRET == "change-me-in-prod"

\* maxAge of the session cookie
SessionMaxAgeMs == 8 * 60 * 60 * 1000

\* jwt.sign(payload, secret, { expiresIn }): a token is << claims, signature >>,
\* iat and exp are whole seconds, the signature covers the claims; the empty
\* string << >> stands for "no token"
jwtSign(payload, secret, expiresInSec, now) ==
  LET claims == [ admin |-> payload.admin,
                  iat |-> now \div MsPerSec,
                  exp |-> now \div MsPerSec + expiresInSec ]
  IN << claims, << "HS256", claims, secret >> >>

signAdminToken == jwtSign([ admin |-> TRUE ], JWT_SECRET, ExpiresInSec, clock)

SignatureValid(token, secret) == token[2] = << "HS256", token[1], secret >>

\* an expiry test that still accepts the token in the second it expires
TokenExpiredLate(claims, now) == now \div MsPerSec > claims.exp

\* the expiry test of jwt.verify: Math.floor(Date.now() / 1000) >= exp
TokenExpired(claims, now) == now \div MsPerSec >= claims.exp

\* jwt.decode in the place of jwt.verify: nothing is checked
DecodeOnly(token, secret, now) == TRUE

\* jwt.verify(token, secret) returns the claims (TRUE) or throws (FALSE)
jwtVerifies(token, secret, now) ==
  SignatureValid(token, secret) /\ ~ TokenExpired(token[1], now)

\* a test that takes any verified token for an admin token
AnyClaims(claims) == TRUE

\* payload?.admin
HasAdminClaim(claims) == claims.admin

\* a guard that looks the session up in a store that logout clears: after a
\* logout no token is accepted
RequireAdminWithSessionStore(token, now) ==
  IF token = << >> \/ (\E l \in DOMAIN logout : logout[l].clearCookie)
       \/ ~ jwtVerifies(token, JWT_SECRET, now)
  THEN [ status |-> 401, admin |-> FALSE, next |-> FALSE ]
  ELSE IF ~ HasAdminClaim(token[1])
  THEN [ status |-> 403, admin |-> FALSE, next |-> FALSE ]
  ELSE [ status |-> 0, admin |-> TRUE, next |-> TRUE ]

\* what requireAdmin does with the cookie: the status it answers (0: none),
\* req.admin, and whether next() is called
requireAdmin(token, now) ==
  IF token = << >>
  THEN [ status |-> 401, admin |-> FALSE, next |-> FALSE ]
  ELSE IF ~ jwtVerifies(token, JWT_SECRET, now)
  THEN [ status |-> 401, admin |-> FALSE, next |-> FALSE ]
  ELSE IF ~ HasAdminClaim(token[1])
  THEN [ status |-> 403, admin |-> FALSE, next |-> FALSE ]
  ELSE [ status |-> 0, admin |-> TRUE, next |-> TRUE ]

\* tokens a client may present besides the ones the server issued: one signed
\* with another secret, one signed with the server's secret without the admin
\* claim, and an issued token whose exp was pushed back
ForgedToken == jwtSign([ admin |-> TRUE ], "guess", ExpiresInSec, 0)
PlainToken == jwtSign([ admin |-> FALSE ], JWT_SECRET, ExpiresInSec, 0)
Tampered(token) == << [ token[1] EXCEPT !.exp = @ + ExpiresInSec ], token[2] >>
TokenInputs ==
  { << >>, ForgedToken, PlainToken }
    \cup { i.token : i \in issued } \cup { Tampered(i.token) : i \in issued }

\* bcrypt: the hash string carries the salt; compare hashes the password with
\* the salt of the stored hash
bcryptHash(password, salt) == << "$2a$", salt, password >>

\* a comparison that accepts any password
CompareAlwaysTrue(password, hash) == TRUE

bcryptCompare(password, hash) == bcryptHash(password, hash[2]) = hash

PasswordRight == << "r", "i", "g", "h", "t", "!", "!" >>
PasswordInputs == { << "w", "r", "o", "n", "g" >>,
                    << "w", "r", "o", "n", "g", "!" >>,
                    PasswordRight }
SessionTickSteps == { 500, 28799500 }

\* request arrives: validator, configuration test, bcrypt.compare issued
LoginStart(l, password) ==
  /\ login[l].pc \in { "idle", "done" }
  /\ LET base == [ IdleLogin EXCEPT !.password = password ]
     IN login' = [ login EXCEPT ![l] =
          IF ~ isLength(password, PasswordMin, PasswordMax)
          THEN [ base EXCEPT !.pc = "done", !.status = 400 ]
          ELSE IF ADMIN_PASSWORD_HASH = << >>
          THEN [ base EXCEPT !.pc = "done", !.status = 500 ]
          ELSE [ base EXCEPT !.pc = "compare" ] ]
  /\ UNCHANGED << clock, ticks, VAPID_PUBLIC_KEY, VAPID_PRIVATE_KEY, webpushModule,
                  poll, poll_votes, ideas, idea_seen, push_subscriptions,
                  daily_connections, vote, adm, rd, idea, news,
                  ADMIN_PASSWORD_HASH, issued, req, hits, edge >>

\* bcrypt.compare resolved: 401, or signAdminToken, setAuthCookie, { ok: true }
LoginCompare(l) ==
  /\ login[l].pc = "compare"
  /\ IF ~ bcryptCompare(login[l].password, ADMIN_PASSWORD_HASH)
     THEN /\ login' = [ login EXCEPT ![l].pc = "done", ![l].status = 401 ]
          /\ issued' = issued
     ELSE /\ login' = [ login EXCEPT ![l].pc = "done", ![l].status = 200,
                                     ![l].setCookie = signAdminToken ]
          /\ issued' = issued \cup { [ token |-> signAdminToken, at |-> clock ] }
  /\ UNCHANGED << clock, ticks, VAPID_PUBLIC_KEY, VAPID_PRIVATE_KEY, webpushModule,
                  poll, poll_votes, ideas, idea_seen, push_subscriptions,
                  daily_connections, vote, adm, rd, idea, news,
                  ADMIN_PASSWORD_HASH, req, hits, edge >>

(***************************************************************************)
(* The middleware chain in front of the routes                             *)
(***************************************************************************)
RoutePoll == "GET /api/public/poll"
RouteVote == "POST /api/public/poll/:id/vote"
RouteSend == "POST /api/push/send"
RouteMe == "GET /api/admin/me"
RouteIdeas == "POST /api/public/ideas"
RouteStats == "GET /api/stats"
RouteAdminIdeas == "GET /api/admin/ideas"
RouteAdminNews == "POST /api/admin/news"
RouteAdminPoll == "POST /api/admin/poll"
RouteAdminInfo == "POST /api/admin/info"
Routes == { RoutePoll, RouteVote, RouteSend, RouteMe }
\* routes under /api/public, routes behind requireAdmin, routes with a JSON body
PublicRoutes == { RoutePoll, RouteVote, RouteIdeas }
AdminRoutes == { RouteSend, RouteMe, RouteStats, RouteAdminIdeas, RouteAdminNews,
                 RouteAdminPoll, RouteAdminInfo }
PostRoutes == { RouteVote, RouteSend, RouteIdeas, RouteAdminNews, RouteAdminPoll,
                RouteAdminInfo }

\* a test that only looks for a missing header
DeviceIdMissingOnly(deviceId) == deviceId = << >>

\* !deviceId || deviceId.length < 8 || deviceId.length > 200
DeviceIdInvalid(deviceId) ==
  deviceId = << >> \/ Len(deviceId) < DeviceIdMin \/ Len(deviceId) > DeviceIdMax

Chars(n) == [ k \in 1..n |-> "d" ]
DeviceIdInputs == { << >>, Chars(7), Chars(8), Chars(200), Chars(201) }

\* a request runs down the chain, which is synchronous: express.json (a body
\* that does not parse goes to the error handler), publicLimiter on
\* /api/public, the device id middleware, and requireAdmin on the admin
\* routes.  A request that gets through is handed on (next): to the tally
\* middleware and the route handler, which answer later, except for GET
\* /api/admin/me, whose handler answers at once
ApiArrive(r, route, bodyOk, deviceId, token) ==
  /\ req[r].pc \in { "idle", "done", "handler" }
  /\ bodyOk \/ route \in PostRoutes
  /\ LET counted == bodyOk /\ route \in PublicRoutes
         n == IF counted THEN hits + 1 ELSE hits
         base == [ IdleReq EXCEPT !.pc = "done", !.route = route, !.bodyOk = bodyOk,
                                  !.deviceId = deviceId, !.token = token, !.at = clock ]
         in == [ base EXCEPT !.deviceHash = sha256(deviceId) ]
         guard == requireAdmin(token, clock)
     IN /\ counted => hits <= PublicLimit
        /\ hits' = n
        /\ req' = [ req EXCEPT ![r] =
             IF ~ bodyOk THEN [ base EXCEPT !.status = 500 ]
             ELSE IF counted /\ n > PublicLimit THEN [ base EXCEPT !.status = 429 ]
             ELSE IF DeviceIdInvalid(deviceId) THEN [ base EXCEPT !.status = 400 ]
             ELSE IF route \notin AdminRoutes
             THEN [ in EXCEPT !.pc = "handler", !.next = TRUE ]
             ELSE IF guard.status # 0 THEN [ in EXCEPT !.status = guard.status ]
             ELSE IF route = RouteMe
             THEN [ in EXCEPT !.admin = TRUE, !.next = TRUE, !.status = 200 ]
             ELSE [ in EXCEPT !.pc = "handler", !.admin = TRUE, !.next = TRUE ] ]
  /\ UNCHANGED << clock, ticks, VAPID_PUBLIC_KEY, VAPID_PRIVATE_KEY, webpushModule,
                  poll, poll_votes, ideas, idea_seen, push_subscriptions,
                  daily_connections, vote, adm, rd, idea, news,
                  ADMIN_PASSWORD_HASH, issued, login, edge >>

\* the window of publicLimiter (windowMs) is over
WindowReset ==
  /\ hits > 0
  /\ hits' = 0
  /\ UNCHANGED << clock, ticks, VAPID_PUBLIC_KEY, VAPID_PRIVATE_KEY, webpushModule,
                  poll, poll_votes, ideas, idea_seen, push_subscriptions,
                  daily_connections, vote, adm, rd, idea, news,
                  ADMIN_PASSWORD_HASH, issued, login, req, edge >>

(***************************************************************************)
(* POST /api/admin/info, GET /api/admin/ideas, GET /api/stats              *)
(***************************************************************************)
InfoKeys == { "jpo", "mini_stages", "science_weekly", "cycle_mauriac", "region_aides" }

\* initDb: INSERT OR IGNORE of one default row per key
SeedText == << "I", "n", "f", "o", "r", "m", "a", "t", "i", "o", "n", "s" >>
SeedUrl == << "h", "t", "t", "p", "s", ":", "/", "/", "l", "/" >>
SeededInfo == [ k \in InfoKeys |-> [ text |-> SeedText, url |-> SeedUrl ] ]

\* bodies of POST /api/admin/info; url << >> stands for an absent url
InfoBodies ==
  { [ key |-> "jpo",
      text |-> << "J", "P", "O", " ", "<", "b", ">", "l", "e", " ", "1", "2", " ", "m", "a", "i" >>,
      url |-> << " ", "/", "j", "p", "o" >> ],
    [ key |-> "cantine",
      text |-> << "M", "e", "n", "u", " ", "d", "u", " ", "j", "o", "u", "r" >>,
      url |-> << >> ] }

InfoBodyValid(b) ==
  /\ b.key \in InfoKeys
  /\ isLength(b.text, InfoTextMin, InfoTextMax)
  /\ isLength(b.url, 0, InfoUrlMax)

\* req.body.url ? String(req.body.url).trim() : null (<< >> stands for null)
InfoUrl(url) == IF url = << >> THEN << >> ELSE TrimRight(TrimLeft(url))

\* request arrives behind requireAdmin: validators, cleanText, upsert issued
InfoStart(a, b) ==
  /\ adm[a].pc \in { "idle", "done" }
  /\ IF ~ InfoBodyValid(b)
     THEN adm' = [ adm EXCEPT ![a] = [ IdleAdm EXCEPT !.kind = "info", !.pc = "done",
                                                       !.status = 400 ] ]
     ELSE adm' = [ adm EXCEPT ![a] =
                     [ IdleAdm EXCEPT !.kind = "info", !.pc = "upsert",
                                      !.payload = [ key |-> b.key,
                                                    text |-> cleanText(b.text, InfoTextMax),
                                                    url |-> InfoUrl(b.url) ] ] ]
  /\ UNCHANGED << clock, ticks, VAPID_PUBLIC_KEY, VAPID_PRIVATE_KEY, webpushModule,
                  poll, poll_votes, ideas, idea_seen, push_subscriptions,
                  daily_connections, vote, rd, idea, news, front >>

\* INSERT INTO info_blocks ... ON CONFLICT(key) DO UPDATE SET text, url
InfoUpsert(a) ==
  /\ adm[a].kind = "info" /\ adm[a].pc = "upsert"
  /\ info_blocks' = [ info_blocks EXCEPT ![adm[a].payload.key] =
                        [ text |-> adm[a].payload.text, url |-> adm[a].payload.url ] ]
  /\ adm' = [ adm EXCEPT ![a].pc = "done", ![a].status = 200,
                         ![a].ops = Append(@, "write") ]
  /\ UNCHANGED << clock, ticks, VAPID_PUBLIC_KEY, VAPID_PRIVATE_KEY, webpushModule,
                  poll, poll_votes, ideas, idea_seen, push_subscriptions,
                  daily_connections, vote, rd, idea, news,
                  ADMIN_PASSWORD_HASH, issued, login, req, hits, logout, cache, sw >>

\* the labels GET /api/admin/ideas adds to the rows
CategoryLabel(c) ==
  CASE c = "vie-scolaire" -> "Vie scolaire"
    [] c = "cantine" -> "Cantine"
    [] c = "ecologie" -> "Écologie"
    [] c = "clubs-evenements" -> "Clubs & événements"
    [] c = "materiel" -> "Matériel"
    [] c = "autre" -> "Autre"
    [] OTHER -> c

\* the first n ids of a table of len rows in ORDER BY id DESC
LatestIds(len, n) == [ k \in 1..(IF len < n THEN len ELSE n) |-> len + 1 - k ]

\* request arrives behind requireAdmin: the SELECT is issued
AdminIdeasStart(a) ==
  /\ adm[a].pc \in { "idle", "done" }
  /\ adm' = [ adm EXCEPT ![a] = [ IdleAdm EXCEPT !.kind = "ideas", !.pc = "rows" ] ]
  /\ UNCHANGED << clock, ticks, VAPID_PUBLIC_KEY, VAPID_PRIVATE_KEY, webpushModule,
                  poll, poll_votes, ideas, idea_seen, push_subscriptions,
                  daily_connections, vote, rd, idea, news, front >>

\* SELECT id, text, category, urgency, status, created_at FROM ideas
\* ORDER BY id DESC LIMIT 500 resolved: the rows with their category_label
AdminIdeasRows(a) ==
  /\ adm[a].kind = "ideas" /\ adm[a].pc = "rows"
  /\ LET ids == LatestIds(Len(ideas), IdeasListLimit)
         rows == [ k \in DOMAIN ids |->
                     [ id |-> ids[k], text |-> ideas[ids[k]].text,
                       category |-> ideas[ids[k]].category,
                       urgency |-> ideas[ids[k]].urgency,
                       status |-> ideas[ids[k]].status,
                       created_at |-> ideas[ids[k]].created_at,
                       category_label |-> CategoryLabel(ideas[ids[k]].category) ] ]
     IN adm' = [ adm EXCEPT ![a].pc = "done", ![a].status = 200,
                            ![a].payload = [ rows |-> rows ],
                            ![a].ops = Append(@, "read") ]
  /\ UNCHANGED << clock, ticks, VAPID_PUBLIC_KEY, VAPID_PRIVATE_KEY, webpushModule,
                  poll, poll_votes, ideas, idea_seen, push_subscriptions,
                  daily_connections, vote, rd, idea, news, front >>

\* what GET /api/stats has gathered before its first SELECT resolved
NoStats == [ ideasTotal |-> 0, byStatus |-> {}, votesTotal |-> 0, newsTotal |-> 0,
             polls |-> << >>, dailyConnections |-> {} ]

\* the six SELECTs of GET /api/stats, in the order they are awaited
StatsQueries == 6

StatsQuery(k, sofar) ==
  CASE k = 1 -> [ sofar EXCEPT !.ideasTotal = Len(ideas) ]
    [] k = 2 -> [ sofar EXCEPT !.byStatus =
                    { [ status |-> st,
                        count |-> Cardinality({ j \in DOMAIN ideas : ideas[j].status = st }) ]
                        : st \in { ideas[j].status : j \in DOMAIN ideas } } ]
    [] k = 3 -> [ sofar EXCEPT !.votesTotal = BagCardinality(poll_votes) ]
    [] k = 4 -> [ sofar EXCEPT !.newsTotal = Len(news) ]
    [] k = 5 -> [ sofar EXCEPT !.polls =
                    LET ids == LatestIds(Len(poll), StatsPollsLimit)
                    IN [ j \in DOMAIN ids |->
                           [ id |-> ids[j], question |-> poll[ids[j]].question,
                             active |-> poll[ids[j]].active = 1,
                             created_at |-> poll[ids[j]].created_at,
                             votes |-> VotesTotal(ids[j]) ] ] ]
    [] OTHER -> [ sofar EXCEPT !.dailyConnections =
                    LET today == clock \div MsPerDay
                        days == { x.day : x \in { y \in daily_connections :
                                                    y.day >= today - StatsDaysBack } }
                    IN { [ day |-> d,
                           count |-> Cardinality({ x \in daily_connections : x.day = d }) ]
                           : d \in days } ]

\* request arrives behind requireAdmin: the first SELECT is issued
StatsStart(a) ==
  /\ adm[a].pc \in { "idle", "done" }
  /\ adm' = [ adm EXCEPT ![a] = [ IdleAdm EXCEPT !.kind = "stats", !.pc = "stats",
                                                 !.i = 1, !.payload = NoStats ] ]
  /\ UNCHANGED << clock, ticks, VAPID_PUBLIC_KEY, VAPID_PRIVATE_KEY, webpushModule,
                  poll, poll_votes, ideas, idea_seen, push_subscriptions,
                  daily_connections, vote, rd, idea, news, front >>

\* the SELECT awaited resolved: the next one is issued, or the answer is sent
StatsRead(a) ==
  /\ adm[a].kind = "stats" /\ adm[a].pc = "stats"
  /\ LET k == adm[a].i
         r == [ adm[a] EXCEPT !.payload = StatsQuery(k, @), !.i = k + 1,
                              !.ops = Append(@, "read") ]
     IN adm' = [ adm EXCEPT ![a] =
                   IF k < StatsQueries THEN r
                   ELSE [ r EXCEPT !.pc = "done", !.status = 200 ] ]
  /\ UNCHANGED << clock, ticks, VAPID_PUBLIC_KEY, VAPID_PRIVATE_KEY, webpushModule,
                  poll, poll_votes, ideas, idea_seen, push_subscriptions,
                  daily_connections, vote, rd, idea, news, front >>

(***************************************************************************)
(* POST /api/auth/logout                                                   *)
(***************************************************************************)
\* the device-id middleware, then clearAuthCookie(res); res.json({ ok: true }):
\* the handler is synchronous and touches nothing but its response
Logout(l, deviceId) ==
  /\ logout' = [ logout EXCEPT ![l] =
                  IF DeviceIdInvalid(deviceId)
                  THEN [ pc |-> "done", at |-> clock, status |-> 400, clearCookie |-> FALSE ]
                  ELSE [ pc |-> "done", at |-> clock, status |-> 200, clearCookie |-> TRUE ] ]
  /\ UNCHANGED << clock, ticks, VAPID_PUBLIC_KEY, VAPID_PRIVATE_KEY, webpushModule,
                  poll, poll_votes, ideas, idea_seen, push_subscriptions,
                  daily_connections, vote, adm, rd, idea, news,
                  ADMIN_PASSWORD_HASH, issued, login, req, hits, info_blocks, cache, sw >>

(***************************************************************************)
(* The service worker (public/sw.js): the fetch event listener             *)
(***************************************************************************)
\* a pathname is the sequence of its segments: "/api/admin/me" is
\* << "api", "admin", "me" >> and "/" is << >>
PathRoot == << >>
PathIndex == << "index.html" >>
PathExtraJs == << "extra.js" >>
PathLogo == << "logo.png" >>
PathDashboard == << "admin", "dashboard", "" >>
PathPublicPoll == << "api", "public", "poll" >>
PathMe == << "api", "admin", "me" >>
PathStats == << "api", "stats" >>
PathLogout == << "api", "auth", "logout" >>

ASSETS == { PathRoot, PathIndex, << "manifest.json" >>, << "icon-192.png" >>,
            << "icon-512.png" >>, PathExtraJs, PathDashboard,
            << "admin", "dashboard", "index.html" >>,
            << "admin", "dashboard", "dashboard.js" >> }

\* url.pathname.startsWith("/api/public/")
UnderApiPublic(path) == Len(path) >= 3 /\ path[1] = "api" /\ path[2] = "public"

\* a pathname the server routes to its API
UnderApi(path) == Len(path) >= 2 /\ path[1] = "api"

\* what the server answers a GET with, given the session cookie that comes
\* with it (the dashboard sends X-Device-Id with every call)
ServerAnswer(path, token, now) ==
  IF path \in { PathMe, PathStats }
  THEN LET guard == requireAdmin(token, now)
       IN IF guard.next THEN [ status |-> 200, body |-> "admin" ]
          ELSE [ status |-> guard.status, body |-> "error" ]
  ELSE IF UnderApiPublic(path) THEN [ status |-> 200, body |-> "public" ]
  ELSE [ status |-> 200, body |-> "file" ]

NoResponse == [ status |-> 0, body |-> "" ]
Offline503 == [ status |-> 503, body |-> "offline" ]

\* install: caches.open(CACHE_STATIC).addAll(ASSETS); CACHE_RUNTIME is empty
Installed ==
  [ static |-> { [ path |-> p, response |-> [ status |-> 200, body |-> "file" ] ]
                   : p \in ASSETS },
    runtime |-> {} ]

\* the session an admin got by logging in when the server started
SessionToken == jwtSign([ admin |-> TRUE ], JWT_SECRET, ExpiresInSec, 0)

\* a fetch event: the request, the cookie the browser adds to it, the branch
\* of the listener that took it, the response the page got and where from
IdleSw == [ pc |-> "idle", method |-> "", sameOrigin |-> TRUE, html |-> FALSE,
            path |-> << >>, token |-> << >>, branch |-> "", at |-> 0,
            response |-> NoResponse, fromCache |-> FALSE ]

\* requests of the pages: navigations, assets, API calls, a foreign font
SwRequests ==
  { [ method |-> "GET", sameOrigin |-> TRUE, html |-> TRUE, path |-> PathDashboard ],
    [ method |-> "GET", sameOrigin |-> TRUE, html |-> FALSE, path |-> PathExtraJs ],
    [ method |-> "GET", sameOrigin |-> TRUE, html |-> FALSE, path |-> PathLogo ],
    [ method |-> "GET", sameOrigin |-> TRUE, html |-> FALSE, path |-> PathPublicPoll ],
    [ method |-> "GET", sameOrigin |-> TRUE, html |-> FALSE, path |-> PathMe ],
    [ method |-> "GET", sameOrigin |-> TRUE, html |-> FALSE, path |-> PathStats ],
    [ method |-> "POST", sameOrigin |-> TRUE, html |-> FALSE, path |-> PathLogout ],
    [ method |-> "GET", sameOrigin |-> FALSE, html |-> FALSE, path |-> PathLogo ] }

\* the branch of the listener that answers the request ("none": the listener
\* returns without respondWith and the browser fetches as usual)
Branch(r) ==
  IF r.method # "GET" THEN "none"
  ELSE IF r.sameOrigin /\ r.html THEN "html"
  ELSE IF r.sameOrigin /\ UnderApiPublic(r.path) THEN "public"
  ELSE IF r.sameOrigin THEN "static"
  ELSE "none"

\* cache.match(req) on one cache; caches.match(req) on CACHE_STATIC, then
\* CACHE_RUNTIME (the order they were created in)
Match(entries, path) == { x.response : x \in { y \in entries : y.path = path } }

CachesMatch(path) ==
  IF Match(cache.static, path) # {} THEN Match(cache.static, path)
  ELSE Match(cache.runtime, path)

\* cache.put(req, response) on CACHE_RUNTIME
Put(entries, path, response) ==
  { x \in entries : x.path # path } \cup { [ path |-> path, response |-> response ] }

\* the fetch event fires: the listener picks its branch; the cache-first
\* branch answers at once when caches.match finds the request
SwFetch(w, r, token) ==
  /\ sw[w].pc \in { "idle", "done" }
  /\ LET base == [ IdleSw EXCEPT !.method = r.method, !.sameOrigin = r.sameOrigin,
                                 !.html = r.html, !.path = r.path, !.token = token,
                                 !.branch = Branch(r), !.at = clock ]
         cached == CachesMatch(r.path)
     IN sw' = [ sw EXCEPT ![w] =
                  IF Branch(r) = "static" /\ cached # {}
                  THEN [ base EXCEPT !.pc = "done", !.fromCache = TRUE,
                                     !.response = CHOOSE x \in cached : TRUE ]
                  ELSE [ base EXCEPT !.pc = "network" ] ]
  /\ UNCHANGED << clock, ticks, VAPID_PUBLIC_KEY, VAPID_PRIVATE_KEY, webpushModule,
                  poll, poll_votes, ideas, idea_seen, push_subscriptions,
                  daily_connections, vote, adm, rd, idea, news,
                  ADMIN_PASSWORD_HASH, issued, login, req, hits, info_blocks,
                  logout, cache >>

\* fetch(req) resolved with the server's answer (online) or rejected: the
\* three branches put a fresh response into CACHE_RUNTIME; without the
\* network the html branch falls back on the caches and /index.html, the
\* public branch on CACHE_RUNTIME and a 503, the static branch fails
SwNetwork(w, online) ==
  /\ sw[w].pc = "network"
  /\ LET q == sw[w]
         fresh == ServerAnswer(q.path, q.token, clock)
         fallback ==
           IF q.branch = "html"
           THEN IF CachesMatch(q.path) # {} THEN CachesMatch(q.path)
                ELSE CachesMatch(PathIndex)
           ELSE IF q.branch = "public" THEN Match(cache.runtime, q.path)
           ELSE {}
     IN IF online
        THEN /\ sw' = [ sw EXCEPT ![w].pc = "done", ![w].response = fresh ]
             /\ cache' = IF q.branch = "none" THEN cache
                         ELSE [ cache EXCEPT !.runtime = Put(@, q.path, fresh) ]
        ELSE /\ cache' = cache
             /\ sw' = [ sw EXCEPT ![w].pc = "done",
                          ![w].fromCache = fallback # {},
                          ![w].response =
                             IF fallback # {} THEN CHOOSE x \in fallback : TRUE
                             ELSE IF q.branch = "public" THEN Offline503
                             ELSE NoResponse ]
  /\ UNCHANGED << clock, ticks, VAPID_PUBLIC_KEY, VAPID_PRIVATE_KEY, webpushModule,
                  poll, poll_votes, ideas, idea_seen, push_subscriptions,
                  daily_connections, vote, adm, rd, idea, news,
                  ADMIN_PASSWORD_HASH, issued, login, req, hits, info_blocks,
                  logout >>

(***************************************************************************)
(* Specifications                                                          *)
(***************************************************************************)
InitTables ==
  /\ clock = 0
  /\ ticks = 0
  /\ poll = << >>
  /\ poll_votes = EmptyBag
  /\ ideas = << >>
  /\ idea_seen = << >>
  /\ push_subscriptions = << >>
  /\ daily_connections = {}
  /\ vote = [ v \in VoteSlots |-> IdleVote ]
  /\ adm = [ a \in AdmSlots |-> IdleAdm ]
  /\ rd = [ r \in RdSlots |-> IdleRd ]
  /\ idea = [ i \in IdeaSlots |-> IdleIdea ]
  /\ news = << >>
  /\ issued = {}
  /\ login = [ l \in LoginSlots |-> IdleLogin ]
  /\ req = [ r \in ReqSlots |-> IdleReq ]
  /\ hits = 0
  /\ info_blocks = SeededInfo
  /\ logout = [ l \in LoginSlots |-> IdleLogout ]
  /\ cache = Installed
  /\ sw = [ w \in SwSlots |-> IdleSw ]

\* a deployment without VAPID keys (the defaults of the env block)
InitNoPush ==
  /\ InitTables
  /\ VAPID_PUBLIC_KEY = ""
  /\ VAPID_PRIVATE_KEY = ""
  /\ webpushModule = TRUE
  /\ ADMIN_PASSWORD_HASH = << >>

\* votes racing with each other and with poll rotation
VoteNext ==
  \/ \E v \in VoteSlots, d \in DeviceIds, p \in 1..MaxPolls, o \in OptionIndexInputs :
        VoteStart(v, d, p, o)
  \/ \E v \in VoteSlots, ok \in BOOLEAN : VoteInsert(v, ok)
  \/ \E q \in QuestionInputs, o \in OptionInputs : PollStart(1, q, o)
  \/ PollDeactivate(1)
  \/ PollInsert(1)

VoteSpec == InitNoPush /\ [][VoteNext]_vars

\* poll rotations racing with each other and with a reader
PollNext ==
  \/ \E a \in AdmSlots, q \in QuestionInputs, o \in OptionInputs : PollStart(a, q, o)
  \/ \E a \in AdmSlots : PollDeactivate(a)
  \/ \E a \in AdmSlots : PollInsert(a)
  \/ \E d \in DeviceIds : ReadStart(1, d)
  \/ \E ok \in BOOLEAN : ReadTally(1, ok)
  \/ ReadPoll(1)
  \/ ReadCounts(1)

PollSpec == InitNoPush /\ [][PollNext]_vars

\* idea submissions racing with each other while time passes
IdeaNext ==
  \/ \E i \in IdeaSlots, d \in DeviceIds, b \in IdeaBodies : IdeaStart(i, d, b)
  \/ \E i \in IdeaSlots : IdeaCheck(i)
  \/ \E i \in IdeaSlots : IdeaInsert(i)
  \/ \E dt \in TickSteps : Tick(dt)

IdeaSpec == InitNoPush /\ [][IdeaNext]_vars

\* any deployment: VAPID keys set or not, web-push installed or not
InitAnyPush ==
  /\ InitTables
  /\ VAPID_PUBLIC_KEY \in { "", "BPub" }
  /\ VAPID_PRIVATE_KEY \in { "", "priv" }
  /\ webpushModule \in BOOLEAN
  /\ ADMIN_PASSWORD_HASH = << >>

\* a dispatch racing with subscriptions
PushNext ==
  \/ \E d \in DeviceIds, sub \in SubscriptionInputs : Subscribe(d, sub)
  \/ \E d \in DeviceIds, sub \in SubscriptionInputs : SubscribeRejected(d, sub)
  \/ \E b \in PushBodies : PushSendStart(1, b)
  \/ PushInit(1)
  \/ \E ok \in BOOLEAN, st \in { 0, 500 } : PushAll(1, ok, st)
  \/ \E o \in DeliveryOutcomes : PushDeliver(1, o)
  \/ \E ok \in BOOLEAN : PushPrune(1, ok)

PushSpec == InitAnyPush /\ [][PushNext]_vars

\* the two callers of sendPushToAll, POST /api/admin/news and POST
\* /api/push/send, one request at a time, while devices subscribe
NewsNext ==
  \/ \E b \in NewsBodies : NewsStart(1, b)
  \/ NewsInsert(1)
  \/ \E b \in PushBodies : PushSendStart(1, b)
  \/ PushInit(1)
  \/ \E ok \in BOOLEAN, st \in { 0, 500 } : PushAll(1, ok, st)
  \/ \E o \in DeliveryOutcomes : PushDeliver(1, o)
  \/ \E ok \in BOOLEAN : PushPrune(1, ok)
  \/ \E sub \in SubscriptionInputs : Subscribe("device-A", sub)

NewsSpec == InitAnyPush /\ [][NewsNext]_vars

\* a deployment with push notifications in working order
InitPushReady ==
  /\ InitTables
  /\ VAPID_PUBLIC_KEY = "BPub"
  /\ VAPID_PRIVATE_KEY = "priv"
  /\ webpushModule = TRUE
  /\ ADMIN_PASSWORD_HASH = << >>

\* the two best-effort statements at work: a reader, whose request goes
\* through the tally, and poll rotations, each followed by its auto-push,
\* while devices subscribe
BestEffortNext ==
  \/ ReadStart(1, "device-A")
  \/ \E ok \in BOOLEAN : ReadTally(1, ok)
  \/ ReadPoll(1)
  \/ ReadCounts(1)
  \/ \E q \in QuestionInputs, o \in OptionInputs : PollStart(1, q, o)
  \/ PollDeactivate(1)
  \/ PollInsert(1)
  \/ PushInit(1)
  \/ PushAll(1, TRUE, 0)
  \/ \E o \in { 201, 410 } : PushDeliver(1, o)
  \/ \E ok \in BOOLEAN : PushPrune(1, ok)
  \/ \E sub \in SubscriptionInputs : Subscribe("device-B", sub)

BestEffortSpec == InitPushReady /\ [][BestEffortNext]_vars

\* a deployment with or without an admin password
InitAuth ==
  /\ InitTables
  /\ VAPID_PUBLIC_KEY = ""
  /\ VAPID_PRIVATE_KEY = ""
  /\ webpushModule = TRUE
  /\ ADMIN_PASSWORD_HASH \in { << >>, bcryptHash(PasswordRight, "salt") }

\* logins and requests to the admin routes while the clock runs
AuthNext ==
  \/ \E pw \in PasswordInputs : LoginStart(1, pw)
  \/ LoginCompare(1)
  \/ \E route \in { RouteSend, RouteMe }, token \in TokenInputs :
        ApiArrive(1, route, TRUE, Chars(DeviceIdMin), token)
  \/ \E dt \in SessionTickSteps : Tick(dt)

AuthSpec == InitAuth /\ [][AuthNext]_vars

\* requests of one client with any X-Device-Id header on every route
GateNext ==
  \/ \E route \in Routes, bodyOk \in BOOLEAN, d \in DeviceIdInputs,
         token \in { << >>, PlainToken } :
        ApiArrive(1, route, bodyOk, d, token)
  \/ WindowReset

GateSpec == InitNoPush /\ [][GateNext]_vars

\* every place that answers 400, 401 or 403: the middleware chain in front of
\* the routes, the vote and idea handlers, the admin handlers of polls and of
\* push messages
RejectNext ==
  \/ \E route \in { RouteSend, RouteMe },
         d \in { Chars(DeviceIdMin - 1), Chars(DeviceIdMin) },
         token \in { << >>, PlainToken } :
        ApiArrive(1, route, TRUE, d, token)
  \/ \E p \in 1..MaxPolls, o \in OptionIndexInputs : VoteStart(1, "device-A", p, o)
  \/ \E ok \in BOOLEAN : VoteInsert(1, ok)
  \/ \E q \in QuestionInputs, o \in OptionInputs : PollStart(1, q, o)
  \/ PollDeactivate(1)
  \/ PollInsert(1)
  \/ \E b \in PushBodies : PushSendStart(2, b)
  \/ \E b \in IdeaBodies : IdeaStart(1, "device-A", b)
  \/ IdeaCheck(1)
  \/ IdeaInsert(1)

RejectSpec == InitNoPush /\ [][RejectNext]_vars

\* a deployment with an admin password and push notifications in working order
InitAdmin ==
  /\ InitTables
  /\ VAPID_PUBLIC_KEY = "BPub"
  /\ VAPID_PRIVATE_KEY = "priv"
  /\ webpushModule = TRUE
  /\ ADMIN_PASSWORD_HASH = bcryptHash(PasswordRight, "salt")

\* the route handler of the request that slot a's middleware chain handed on:
\* a slot stands for one request, from its arrival to its answer
HandedOn(a, route) ==
  /\ req[a].pc = "handler" /\ req[a].next /\ req[a].route = route
  /\ adm[a].pc = "idle"

\* a request to any route behind requireAdmin, with whatever cookie the
\* client sends, before or after the admin logged in, while the clock runs
\* and a device subscribes
AdminNext ==
  \/ login[1].pc = "idle" /\ LoginStart(1, PasswordRight)
  \/ LoginCompare(1)
  \/ \E route \in AdminRoutes, token \in TokenInputs :
        adm[1].pc = "idle" /\ ApiArrive(1, route, TRUE, Chars(DeviceIdMin), token)
  \/ \E q \in QuestionInputs, o \in OptionInputs :
        HandedOn(1, RouteAdminPoll) /\ PollStart(1, q, o)
  \/ PollDeactivate(1)
  \/ PollInsert(1)
  \/ \E b \in NewsBodies : HandedOn(1, RouteAdminNews) /\ NewsStart(1, b)
  \/ NewsInsert(1)
  \/ \E b \in InfoBodies : HandedOn(1, RouteAdminInfo) /\ InfoStart(1, b)
  \/ InfoUpsert(1)
  \/ \E b \in PushBodies : HandedOn(1, RouteSend) /\ PushSendStart(1, b)
  \/ PushInit(1)
  \/ PushAll(1, TRUE, 0)
  \/ PushDeliver(1, 201)
  \/ HandedOn(1, RouteAdminIdeas) /\ AdminIdeasStart(1)
  \/ AdminIdeasRows(1)
  \/ HandedOn(1, RouteStats) /\ StatsStart(1)
  \/ StatsRead(1)
  \/ \E sub \in { x \in SubscriptionInputs : x.endpoint = Endpoint(1) } :
        Subscribe("device-B", sub)
  \/ \E dt \in SessionTickSteps : Tick(dt)

AdminSpec == InitAdmin /\ [][AdminNext]_vars

\* two devices behind one address
DeviceA == [ k \in 1..DeviceIdMin |-> "a" ]
DeviceB == [ k \in 1..DeviceIdMin |-> "b" ]

\* the route handler of the idea submission that slot i's middleware chain
\* handed on: a slot stands for one submission
HandedOnIdea(i) ==
  /\ req[i].pc = "handler" /\ req[i].next /\ req[i].route = RouteIdeas
  /\ idea[i].pc = "idle"

\* the bodies of the submissions: one that passes the validators, one that
\* does not
GateBodies ==
  { [ text |-> TextOk, category |-> "cantine", urgency |-> "basse", hp |-> << >> ],
    [ text |-> TextShort, category |-> "cantine", urgency |-> "basse", hp |-> << >> ] }

\* the pages of the address load the poll until publicLimiter has one request
\* left in its window: PublicLimit - 1 arrivals on GET /api/public/poll, each
\* one counted and handed on, taken as one step, before the first submission
PollBurst ==
  /\ hits = 0
  /\ req[4].pc = "idle" /\ req[1].pc = "idle"
  /\ hits' = PublicLimit - 1
  /\ req' = [ req EXCEPT ![4] =
               [ IdleReq EXCEPT !.pc = "handler", !.route = RoutePoll, !.bodyOk = TRUE,
                                !.deviceId = DeviceB, !.deviceHash = sha256(DeviceB),
                                !.at = clock, !.next = TRUE ] ]
  /\ UNCHANGED << clock, ticks, VAPID_PUBLIC_KEY, VAPID_PRIVATE_KEY, webpushModule,
                  poll, poll_votes, ideas, idea_seen, push_subscriptions,
                  daily_connections, vote, adm, rd, idea, news,
                  ADMIN_PASSWORD_HASH, issued, login, edge >>

\* idea submissions of one device, each one going through publicLimiter and
\* the device middleware before its handler, while the pages of the address
\* load the poll and time passes; the slots are numbered in the order of
\* arrival
RetryNext ==
  \/ \E i \in IdeaSlots :
        /\ req[i].pc = "idle" /\ \A j \in 1..(i - 1) : req[j].pc # "idle"
        /\ ApiArrive(i, RouteIdeas, TRUE, DeviceA, << >>)
  \/ \E i \in IdeaSlots, b \in GateBodies :
        HandedOnIdea(i) /\ IdeaStart(i, req[i].deviceId, b)
  \/ \E i \in IdeaSlots : IdeaCheck(i)
  \/ \E i \in IdeaSlots : IdeaInsert(i)
  \/ PollBurst
  \/ WindowReset
  \/ \E dt \in TickSteps : Tick(dt)

RetrySpec == InitNoPush /\ [][RetryNext]_vars

\* idea submissions of two devices that share an address, as above
IdeaGateNext ==
  \/ \E i \in { 1, 2 }, d \in { DeviceA, DeviceB } :
        /\ req[i].pc = "idle" /\ \A j \in 1..(i - 1) : req[j].pc # "idle"
        /\ ApiArrive(i, RouteIdeas, TRUE, d, << >>)
  \/ \E i \in { 1, 2 }, b \in GateBodies :
        HandedOnIdea(i) /\ IdeaStart(i, req[i].deviceId, b)
  \/ \E i \in { 1, 2 } : IdeaCheck(i)
  \/ \E i \in { 1, 2 } : IdeaInsert(i)
  \/ PollBurst
  \/ WindowReset
  \/ \E dt \in TickSteps : Tick(dt)

IdeaGateSpec == InitNoPush /\ [][IdeaGateNext]_vars

\* the pages of a browser in which the service worker is active: their
\* requests with and without the session cookie, the network up or down,
\* time passing until the session is over
SwNext ==
  \/ \E w \in SwSlots, r \in SwRequests, token \in { << >>, SessionToken } :
        SwFetch(w, r, token)
  \/ \E w \in SwSlots, online \in BOOLEAN : SwNetwork(w, online)
  \/ \E dt \in SessionTickSteps : Tick(dt)

SwSpec == InitAdmin /\ [][SwNext]_vars

\* one login, then requests to the admin routes with the cookie of that
\* login or without one, and logouts, while the clock runs
LogoutNext ==
  \/ login[1].pc = "idle" /\ LoginStart(1, PasswordRight)
  \/ LoginCompare(1)
  \/ \E d \in { Chars(DeviceIdMin), << >> } : Logout(1, d)
  \/ \E r \in { 1, 2 }, route \in { RouteSend, RouteMe },
         token \in { << >> } \cup { i.token : i \in issued } :
        ApiArrive(r, route, TRUE, Chars(DeviceIdMin), token)
  \/ \E dt \in SessionTickSteps : Tick(dt)

LogoutSpec == InitAdmin /\ [][LogoutNext]_vars

(***************************************************************************)
(* Properties                                                              *)
(***************************************************************************)
\* number of poll_votes rows of one (poll_id, voter_hash) pair
VoteCount(pollId, voterHash) ==
  BagCardinality([ x \in VoteRows(pollId, voterHash) |-> poll_votes[x] ])

DeviceHashes == { sha256(d) : d \in DeviceIds }

\* C1: in every reachable state poll_votes holds at most one row for each
\* (poll_id, voter_hash) pair, whatever the interleaving of the vote requests
C1_OneRowPerPollAndVoter ==
  \A p \in 1..(MaxPolls + 1), h \in DeviceHashes : VoteCount(p, h) <= 1

\* two requests of one device raced: one was recorded, the other one ran into
\* the constraint
C1_Witness ==
  \E v, w \in DOMAIN vote :
     /\ v # w
     /\ vote[v].pc = "done" /\ vote[w].pc = "done"
     /\ vote[v].status = 200 /\ vote[w].status = 409
     /\ ~ vote[v].had /\ ~ vote[w].had
     /\ vote[v].deviceHash = vote[w].deviceHash
     /\ vote[v].pollId = vote[w].pollId
     /\ VoteCount(vote[v].pollId, vote[v].deviceHash) = 1

\* C2 as stated: a vote attempt of a device that already has a recorded vote
\* on the poll is always answered 409
C2_SecondVoteAlways409 ==
  \A v \in DOMAIN vote :
     vote[v].pc = "done" /\ vote[v].had => vote[v].status = 409

\* C2 amended: such an attempt is never answered with a success; it is
\* answered 400 when optionIndex fails the validator or the option test, 404
\* when the poll is no longer active, and 409 in every other case
C2_SecondVoteNeverSucceeds ==
  \A v \in DOMAIN vote :
     vote[v].pc = "done" /\ vote[v].had =>
        /\ vote[v].status \in { 400, 404, 409 }
        /\ vote[v].status = 404 => poll[vote[v].pollId].active = 0
        /\ vote[v].status = 400 <=>
              \/ ~ isInt(vote[v].idx, 0, OptionIndexMax)
              \/ /\ vote[v].status # 404
                 /\ vote[v].idx >= Len(JSONparse(poll[vote[v].pollId].options_json))

\* a second attempt with a valid option on a poll that is still active got 409
C2_Witness ==
  \E v \in DOMAIN vote :
     /\ vote[v].pc = "done" /\ vote[v].had /\ vote[v].status = 409
     /\ poll[vote[v].pollId].active = 1

\* C3: the number of poll rows with active = 1 is never greater than 1
C3_AtMostOneActivePoll == Cardinality(ActiveIds) <= 1

\* C4: once a poll exists, GET /api/public/poll never observes zero active polls
C4_ReaderNeverSeesZeroActive ==
  \A r \in DOMAIN rd :
     rd[r].pc = "done" /\ rd[r].npolls >= 1 => rd[r].active = 1

\* the option index of request r is < 0 or >= the number of options of its poll
BadOptionIndex(r) ==
  \/ r.idx < 0
  \/ r.pollId \in DOMAIN poll /\ r.idx >= Len(JSONparse(poll[r.pollId].options_json))

\* C7 as stated: a vote whose optionIndex is < 0 or >= the number of options
\* of the target poll is answered 400
C7_BadIndexAlways400 ==
  \A v \in DOMAIN vote :
     vote[v].pc = "done" /\ BadOptionIndex(vote[v]) => vote[v].status = 400

\* C7 amended: such a vote is answered 400, or 404 when optionIndex is within
\* 0..50 and the target poll is not active, and the step that answers it
\* leaves poll_votes unchanged; no step of such a request writes a row
C7_BadIndexRejectedNoRow ==
  [][ \A v \in DOMAIN vote :
        vote'[v] # vote[v] /\ BadOptionIndex(vote'[v]) =>
           /\ vote'[v].pc = "done"
           /\ vote'[v].status =
                 IF isInt(vote'[v].idx, 0, OptionIndexMax) /\ poll[vote'[v].pollId].active = 0
                 THEN 404 ELSE 400
           /\ poll_votes' = poll_votes ]_vars

\* an index beyond the options of an active poll was answered 400
C7_Witness ==
  \E v \in DOMAIN vote :
     /\ vote[v].pc = "done" /\ vote[v].status = 400
     /\ vote[v].pollId \in DOMAIN poll
     /\ poll[vote[v].pollId].active = 1
     /\ vote[v].idx >= Len(JSONparse(poll[vote[v].pollId].options_json))

CooldownMs == IDEA_COOLDOWN_SEC * MsPerSec

\* C5: a submission whose looked-up most recent idea is less than the
\* cooldown old when the handler tests it is answered 429 with
\* retry_after_sec = ceil(cooldown - elapsed), the least whole number of
\* seconds covering the rest of the window, and that value is >= 1
C5_RetryAfterIsCeilAndPositive ==
  [][ \A i \in DOMAIN idea :
        idea[i].pc = "check" /\ idea'[i] # idea[i] /\ idea[i].last # 0 =>
           LET elapsed == clock - DateParse(ideas[idea[i].last].created_at)
               retry == idea'[i].retry_after_sec
           IN elapsed < CooldownMs =>
                 /\ idea'[i].pc = "done"
                 /\ idea'[i].status = 429
                 /\ retry * MsPerSec >= CooldownMs - elapsed
                 /\ (retry - 1) * MsPerSec < CooldownMs - elapsed
                 /\ retry >= 1 ]_vars

\* a submission half a second before the end of the window was told to wait
\* one second, while an idea of the device is less than the window old
C5_Witness ==
  \E i \in DOMAIN idea :
     /\ idea[i].pc = "done" /\ idea[i].status = 429 /\ idea[i].retry_after_sec = 1
     /\ \E k \in DOMAIN ideas :
           /\ ideas[k].device_hash = idea[i].deviceHash
           /\ clock - DateParse(ideas[k].created_at) < CooldownMs

\* rows of one device created less than the cooldown after row k (k included)
InWindowOf(k) ==
  { j \in DOMAIN ideas :
      /\ ideas[j].device_hash = ideas[k].device_hash
      /\ DateParse(ideas[j].created_at) >= DateParse(ideas[k].created_at)
      /\ DateParse(ideas[j].created_at) - DateParse(ideas[k].created_at) < CooldownMs }

\* C6 as stated: whatever the number of concurrent requests, a cooldown
\* window of a device holds the submission the cooldown allows and at most
\* one extra
C6_AtMostOneExtra ==
  \A k \in DOMAIN ideas : Cardinality(InWindowOf(k)) <= 2

\* C6 amended: every accepted submission is created at least the cooldown
\* after the row its own lookup returned (the device's row of highest id at
\* that time); rows inserted after the lookup are not seen
C6_AcceptedOnlyPastSeenRow ==
  \A j \in DOMAIN ideas :
     /\ idea_seen[j] < j
     /\ idea_seen[j] # 0 =>
           /\ ideas[idea_seen[j]].device_hash = ideas[j].device_hash
           /\ DateParse(ideas[j].created_at) - DateParse(ideas[idea_seen[j]].created_at)
                 >= CooldownMs

\* two racing submissions of one device were both accepted inside one window
\* and a later one was accepted once the row it saw was old enough
C6_Witness ==
  /\ \E k \in DOMAIN ideas : Cardinality(InWindowOf(k)) = 2
  /\ \E j \in DOMAIN ideas : idea_seen[j] # 0

\* a dispatch that ran its loop and returned { sent, failed, disabled: false }
Dispatched(r) == r.pc = "done" /\ r.result.returned /\ ~ r.result.disabled

\* sent and failed count the deliveries of the rows read at the start
CountsMatch(r) ==
  /\ Len(r.log) = Len(r.subs)
  /\ \A k \in DOMAIN r.subs : r.log[k].endpoint = r.subs[k].endpoint
  /\ r.result.sent = Cardinality({ k \in DOMAIN r.log : r.log[k].outcome = 201 })
  /\ r.result.failed = Cardinality({ k \in DOMAIN r.log : r.log[k].outcome # 201 })
  /\ r.result.sent + r.result.failed = Len(r.subs)

C9_DisabledWithoutCredentials ==
  [][ \A a \in DOMAIN adm :
        /\ VAPID_PUBLIC_KEY = "" \/ VAPID_PRIVATE_KEY = ""
        /\ adm'[a] # adm[a]
        /\ adm'[a].kind = "send"
        /\ adm'[a].status # 400
        => /\ adm'[a].pc = "done"
           /\ adm'[a].result.returned /\ adm'[a].result.disabled
           /\ adm'[a].result.reason = "missing_vapid"
           /\ adm'[a].result.sent = 0 /\ adm'[a].result.failed = 0
           /\ adm'[a].log = << >>
           /\ push_subscriptions' = push_subscriptions ]_vars

\* a dispatch was refused for want of credentials while subscriptions are stored
C9_Witness ==
  \E a \in DOMAIN adm :
     /\ VAPID_PUBLIC_KEY = "" \/ VAPID_PRIVATE_KEY = ""
     /\ adm[a].pc = "done" /\ adm[a].kind = "send"
     /\ adm[a].result.disabled /\ adm[a].result.reason = "missing_vapid"
     /\ push_subscriptions # << >>

\* delivery attempts of dispatch r on an endpoint
Attempts(r, endpoint) ==
  Cardinality({ n \in DOMAIN r.log : r.log[n].endpoint = endpoint /\ r.log[n].outcome # -1 })

\* C10: no subscription read at the start gets more than one delivery
\* attempt, and when the dispatch returns each of them got exactly one,
\* whatever became of the attempts and prunes of the others
C10_EachSubscriptionAttemptedOnce ==
  \A a \in DOMAIN adm :
     /\ \A k \in DOMAIN adm[a].subs : Attempts(adm[a], adm[a].subs[k].endpoint) <= 1
     /\ Dispatched(adm[a]) =>
           \A k \in DOMAIN adm[a].subs : Attempts(adm[a], adm[a].subs[k].endpoint) = 1

\* the first delivery failed as gone and its prune failed too, and the
\* dispatch still went on to the second subscription
C10_Witness ==
  \E a \in DOMAIN adm :
     /\ Dispatched(adm[a])
     /\ Len(adm[a].subs) >= 2
     /\ adm[a].log[1].outcome \in { 404, 410 }
     /\ adm[a].log[1].pruned = "failed"
     /\ Attempts(adm[a], adm[a].subs[2].endpoint) = 1

\* C11: whenever sendPushToAll returned a disabled result (keys missing or
\* web-push not installed), the request that called it is answered 501, never
\* with a 200
C11_DisabledAnswered501 ==
  \A a \in DOMAIN adm :
     adm[a].pc = "done" /\ adm[a].result.returned /\ adm[a].result.disabled =>
        adm[a].status = 501

\* a request to an admin route that got as far as requireAdmin
Guarded(q) == q.pc # "idle" /\ q.route \in AdminRoutes /\ q.deviceHash # << >>

\* the signature of token t is not the server's, or t is past its expiry at
\* time now
BadSignatureOrExpired(t, now) ==
  t[2] # << "HS256", t[1], JWT_SECRET >> \/ now \div MsPerSec >= t[1].exp

\* C12: requireAdmin answers 401 without a token cookie, 401 for a token with
\* an invalid signature or past its expiry, 403 for a valid token without the
\* admin claim, and in these three cases never calls the next handler;
\* otherwise it sets req.admin and calls the next handler
C12_RequireAdminDecides ==
  \A r \in DOMAIN req :
     LET q == req[r] IN
     Guarded(q) =>
        IF q.token = << >>
        THEN q.status = 401 /\ ~ q.next /\ ~ q.admin
        ELSE IF BadSignatureOrExpired(q.token, q.at)
        THEN q.status = 401 /\ ~ q.next /\ ~ q.admin
        ELSE IF ~ q.token[1].admin
        THEN q.status = 403 /\ ~ q.next /\ ~ q.admin
        ELSE q.admin /\ q.next /\ q.status \notin { 401, 403 }

\* a token of the server without the admin claim was refused with 403 while
\* an admin token is out
C12_Witness ==
  \E r \in DOMAIN req :
     /\ Guarded(req[r]) /\ req[r].status = 403 /\ ~ req[r].next
     /\ req[r].token = PlainToken
     /\ issued # {}

\* the stored admin hash is the hash of this password
Matches(password) ==
  ADMIN_PASSWORD_HASH # << >> /\ ADMIN_PASSWORD_HASH[3] = password

\* C13 as stated: a login whose password does not match the stored admin
\* hash is always answered 401 and never has the session cookie set; the
\* cookie is set only on the response to a login whose password matched
C13_MismatchAlways401 ==
  \A l \in DOMAIN login :
     login[l].pc = "done" =>
        /\ ~ Matches(login[l].password) =>
              login[l].status = 401 /\ login[l].setCookie = << >>
        /\ login[l].setCookie # << >> => Matches(login[l].password)

\* C13 amended: such a login is never answered with a success and never has
\* the cookie set; it is answered 400 when the password is not 6 to 128
\* characters long, 500 when no admin hash is configured, and 401 otherwise;
\* the cookie is set only on the 200 response to a login whose password matched
C13_MismatchNeverGetsCookie ==
  \A l \in DOMAIN login :
     login[l].pc = "done" =>
        /\ ~ Matches(login[l].password) =>
              /\ login[l].setCookie = << >>
              /\ login[l].status =
                    IF Len(login[l].password) < PasswordMin
                       \/ Len(login[l].password) > PasswordMax THEN 400
                    ELSE IF ADMIN_PASSWORD_HASH = << >> THEN 500
                    ELSE 401
        /\ login[l].setCookie # << >> =>
              login[l].status = 200 /\ Matches(login[l].password)

\* a wrong password of valid length was answered 401 without a cookie while
\* a token of an earlier login with the right password is out
C13_Witness ==
  \E l \in DOMAIN login :
     /\ login[l].pc = "done" /\ login[l].status = 401
     /\ login[l].setCookie = << >>
     /\ ~ Matches(login[l].password)
     /\ issued # {}

\* C20: a token issued by a login at time t is accepted by requireAdmin only
\* while now < t + 8 hours; from t + 8 hours on every request to an admin
\* route that carries it is answered 401; no response to such a request sets
\* a cookie, and the token with its expiry pushed back is refused
C20_TokenGoodForEightHours ==
  \A r \in DOMAIN req, i \in issued :
     LET q == req[r] IN
     Guarded(q) =>
        /\ q.token = i.token =>
              /\ q.next => q.at < i.at + SessionMaxAgeMs
              /\ q.at >= i.at + SessionMaxAgeMs => q.status = 401 /\ ~ q.next
              /\ q.setCookie = << >>
        /\ q.token = Tampered(i.token) => q.status = 401 /\ ~ q.next

\* eight hours after the login a request carrying its token was answered
\* 401, and no later login has taken place
C20_Witness ==
  \E r \in DOMAIN req, i \in issued :
     /\ Guarded(req[r]) /\ req[r].token = i.token
     /\ req[r].at >= i.at + SessionMaxAgeMs
     /\ req[r].status = 401
     /\ \A j \in issued : j.at <= i.at

\* a request carrying an issued token was let through before its expiry
C20_Accepted ==
  \E r \in DOMAIN req, i \in issued :
     /\ Guarded(req[r]) /\ req[r].token = i.token
     /\ req[r].next /\ req[r].at > i.at

\* the X-Device-Id header is missing, shorter than 8 or longer than 200
BadDeviceId(q) ==
  q.deviceId = << >> \/ Len(q.deviceId) < 8 \/ Len(q.deviceId) > 200

\* the tables of the store
tables == << poll, poll_votes, ideas, news, push_subscriptions, daily_connections >>

C15_Only409ForDuplicate ==
  \A v \in DOMAIN vote :
     vote[v].pc = "done" /\ vote[v].status = 409 =>
        HasVote(vote[v].pollId, vote[v].deviceHash)

\* C16: sendPushToAll never throws: every request that called it and is over
\* got a result object back, whatever failed during the dispatch
C16_DispatchAlwaysReturns ==
  \A a \in DOMAIN adm :
     adm[a].pc = "done" /\ adm[a].kind = "send" /\ adm[a].status # 400 =>
        adm[a].result.returned

\* C17: a step of a dispatch leaves push_subscriptions as it is, or deletes
\* the rows of the endpoint whose delivery just failed with 404 or 410 and
\* nothing else; no prune is attempted for a delivery that succeeded or
\* failed with another status or without one
C17_PruneOnlyGone ==
  [][ \A a \in DOMAIN adm :
        adm'[a].pc # adm[a].pc \/ adm'[a].log # adm[a].log =>
           /\ \/ push_subscriptions' = push_subscriptions
              \/ /\ adm[a].pc = "prune"
                 /\ LET e == adm[a].subs[adm[a].i].endpoint
                        last == adm[a].log[Len(adm[a].log)]
                    IN /\ last.endpoint = e
                       /\ last.outcome \in { 404, 410 }
                       /\ push_subscriptions' =
                             SelectSeq(push_subscriptions, LAMBDA x : x.endpoint # e)
           /\ \A k \in DOMAIN adm'[a].log :
                 adm'[a].log[k].outcome \notin { 404, 410 } =>
                    adm'[a].log[k].pruned = "none" ]_vars

\* one delivery failed with 500 or without a status and its row is still
\* stored, another one failed as gone and its row was deleted
C17_Witness ==
  \E a \in DOMAIN adm :
     /\ Dispatched(adm[a])
     /\ adm[a].interf = {}
     /\ \E k \in DOMAIN adm[a].log :
           /\ adm[a].log[k].outcome \in { 500, 0 }
           /\ adm[a].log[k].endpoint \in StoredEndpoints
     /\ \E k \in DOMAIN adm[a].log :
           /\ adm[a].log[k].outcome \in { 404, 410 }
           /\ adm[a].log[k].endpoint \notin StoredEndpoints

\* C18: whether the tally upsert resolved or was rejected, the request goes
\* on to its handler unchanged, and what the handler answers is made of the
\* poll tables alone; whether the DELETE of a prune resolved or was rejected,
\* the dispatch keeps its counts and goes on to the next subscription, or
\* returns them when there is none left
C18_BestEffortFailuresSwallowed ==
  [][ /\ \A r \in DOMAIN rd :
           rd[r].pc = "tally" /\ rd'[r] # rd[r] =>
              rd'[r] = [ rd[r] EXCEPT !.pc = "get", !.ops = Append(@, "write") ]
      /\ \A r \in DOMAIN rd :
           rd[r].pc = "get" /\ rd'[r] # rd[r] =>
              IF \A k \in DOMAIN poll : poll[k].active = 0
              THEN rd'[r].pc = "done" /\ rd'[r].status = 200 /\ rd'[r].active = 0
              ELSE /\ rd'[r].pc = "counts"
                   /\ poll[rd'[r].p].active = 1
                   /\ \A k \in DOMAIN poll : poll[k].active = 1 => k <= rd'[r].p
      /\ \A r \in DOMAIN rd :
           rd[r].pc = "counts" /\ rd'[r] # rd[r] =>
              /\ rd'[r].pc = "done" /\ rd'[r].status = 200 /\ rd'[r].active = 1
              /\ Len(rd'[r].results) = Len(JSONparse(poll[rd[r].p].options_json))
              /\ \A k \in DOMAIN rd'[r].results :
                    rd'[r].results[k].label = JSONparse(poll[rd[r].p].options_json)[k]
      /\ \A a \in DOMAIN adm :
           adm[a].pc = "prune" /\ adm'[a].pc # "prune" =>
              /\ adm'[a].sent = adm[a].sent /\ adm'[a].failed = adm[a].failed
              /\ Len(adm'[a].log) = Len(adm[a].log)
              /\ IF adm[a].i < Len(adm[a].subs)
                 THEN adm'[a].pc = "send" /\ adm'[a].i = adm[a].i + 1
                 ELSE /\ adm'[a].pc = "done" /\ adm'[a].status = 200
                      /\ adm'[a].result.returned /\ ~ adm'[a].result.disabled
                      /\ adm'[a].result.sent = adm[a].sent
                      /\ adm'[a].result.failed = adm[a].failed ]_vars

\* a reader whose tally upsert failed (its device has no row) was answered
\* with the active poll, and a dispatch whose prune failed returned its counts
C18_Witness ==
  /\ \E r \in DOMAIN rd :
        /\ rd[r].pc = "done" /\ rd[r].status = 200 /\ rd[r].active = 1
        /\ \A x \in daily_connections : x.device_hash # rd[r].deviceHash
  /\ \E a \in DOMAIN adm :
        /\ Dispatched(adm[a])
        /\ \E k \in DOMAIN adm[a].log : adm[a].log[k].pruned = "failed"
        /\ adm[a].result.failed >= 1

\* a request answered with a validation error or an auth error
Rejected(x) == x.pc = "done" /\ x.status \in { 400, 401, 403 }

\* C19 as stated: a request answered 400, 401 or 403 has issued no statement
\* against the store, neither a read nor a write, and was not handed on to
\* the middleware and handlers behind the one that answered
C19_RejectedBeforeAnyStoreOperation ==
  /\ \A r \in ReqSlots : Rejected(req[r]) => ~ req[r].next
  /\ \A v \in VoteSlots : Rejected(vote[v]) => vote[v].ops = << >>
  /\ \A a \in AdmSlots : Rejected(adm[a]) => adm[a].ops = << >>
  /\ \A i \in IdeaSlots : Rejected(idea[i]) => idea[i].ops = << >>

\* the 400 "Option invalide" of the vote handler: the validator let the index
\* through and the poll that was read has fewer options
OptionRangeRejection(x) ==
  /\ x.status = 400
  /\ isInt(x.idx, 0, OptionIndexMax)
  /\ x.pollId \in DOMAIN poll
  /\ OptionInvalid(x.idx, JSONparse(poll[x.pollId].options_json))

\* C19, amended: a request answered 400, 401 or 403 has issued no write, and
\* no read either, except the vote answered 400 for an option index beyond
\* the poll's options, which has issued exactly one read, the SELECT of the poll
C19_RejectedBeforeAnyWrite ==
  /\ \A r \in ReqSlots : Rejected(req[r]) => ~ req[r].next
  /\ \A v \in VoteSlots :
        Rejected(vote[v]) =>
          \/ vote[v].ops = << >>
          \/ vote[v].ops = << "read" >> /\ OptionRangeRejection(vote[v])
  /\ \A a \in AdmSlots : Rejected(adm[a]) => adm[a].ops = << >>
  /\ \A i \in IdeaSlots : Rejected(idea[i]) => idea[i].ops = << >>

\* a vote was answered 400 after the poll had been read, while a request
\* without a session was answered 401 in front of an admin route
C19_Witness ==
  /\ \E v \in VoteSlots : Rejected(vote[v]) /\ vote[v].ops = << "read" >>
  /\ \E r \in ReqSlots : req[r].pc = "done" /\ req[r].status = 401 /\ ~ req[r].next

\* the kind of handler each route behind requireAdmin starts
KindOf(route) ==
  CASE route = RouteAdminPoll -> "poll"
    [] route = RouteAdminNews -> "news"
    [] route = RouteAdminInfo -> "info"
    [] route = RouteSend -> "send"
    [] route = RouteAdminIdeas -> "ideas"
    [] route = RouteStats -> "stats"
    [] OTHER -> ""

\* the request carried a token signed with the server's secret, with the
\* admin claim, whose exp lay after the second the request arrived in
CarriedAdminToken(q) ==
  /\ q.token # << >>
  /\ q.token[2] = << "HS256", q.token[1], JWT_SECRET >>
  /\ q.token[1].admin = TRUE
  /\ q.at \div MsPerSec < q.token[1].exp

\* C21: a handler of a route behind requireAdmin (poll rotation, news insert,
\* info update, push dispatch, read of the ideas or of the stats) runs only
\* for a request that requireAdmin handed on and that carried a valid,
\* unexpired token with the admin claim; and the tables poll, news and
\* info_blocks change, and notifications are sent, only in a step of such a
\* handler
C21_AdminEffectsNeedAdminToken ==
  [][ /\ \A a \in DOMAIN adm :
           adm'[a].pc # "idle" =>
              /\ req'[a].next /\ req'[a].admin
              /\ adm'[a].kind = KindOf(req'[a].route)
              /\ CarriedAdminToken(req'[a])
      /\ (poll' # poll \/ news' # news \/ info_blocks' # info_blocks
            \/ \E a \in DOMAIN adm : adm'[a].log # adm[a].log)
          => \E a \in DOMAIN adm :
                /\ adm'[a] # adm[a]
                /\ adm[a].pc # "idle" /\ req[a].admin /\ req'[a] = req[a] ]_vars

\* the admin logged in, time passed, and a request with the cookie of that
\* login replaced the active poll
C21_Witness ==
  \E a \in DOMAIN adm :
    /\ adm[a].kind = "poll" /\ adm[a].pc = "done" /\ adm[a].status = 200
    /\ Len(poll) = 1
    /\ \E i \in issued : i.token = req[a].token /\ i.at < req[a].at

\* C22: whenever the INSERT of a vote request is carried out while the poll
\* it names is inactive (or absent), no row is added to poll_votes and the
\* request is answered 404
C22_NoVoteOnInactivePoll ==
  [][ \A v \in DOMAIN vote :
        /\ vote[v].pc = "insert" /\ vote'[v].pc = "done"
        /\ (vote[v].pollId \notin DOMAIN poll \/ poll[vote[v].pollId].active = 0)
        => poll_votes' = poll_votes /\ vote'[v].status = 404 ]_vars

\* C23: after every step, each row of poll_votes names a poll of the table and
\* an option of that poll (0 <= option_index < number of options), and the
\* step left every existing poll as it was but for its active flag
C23_VotesPointAtFrozenOptions ==
  [][ /\ \A x \in BagToSet(poll_votes') :
           /\ x.poll_id \in DOMAIN poll'
           /\ x.option_index >= 0
           /\ x.option_index < Len(JSONparse(poll'[x.poll_id].options_json))
      /\ \A k \in DOMAIN poll :
           /\ k \in DOMAIN poll'
           /\ poll'[k] = [ poll[k] EXCEPT !.active = poll'[k].active ] ]_vars

\* a recorded vote points at an option of a poll that has since been
\* replaced by another one
C23_Witness ==
  \E x \in BagToSet(poll_votes) :
    /\ poll[x.poll_id].active = 0
    /\ x.option_index < Len(JSONparse(poll[x.poll_id].options_json))
    /\ \E k \in DOMAIN poll : k > x.poll_id /\ poll[k].active = 1

\* rows of table ideas of one device
IdeasOf(deviceHash) == { k \in DOMAIN ideas : ideas[k].device_hash = deviceHash }

\* C24 as stated, its second half: a submission of a device none of whose
\* accepted ideas is younger than the cooldown is never refused with 429
C24_OldEnoughAlwaysAccepted ==
  \A i \in IdeaSlots :
    (req[i].route = RouteIdeas /\ req[i].pc = "done" /\ req[i].status = 429)
      => \E k \in IdeasOf(sha256(req[i].deviceId)) :
            req[i].at - DateParse(ideas[k].created_at) < CooldownMs

\* C24: a step that answers an idea submission with 400 or 429, in the
\* middleware chain or in the handler, leaves table ideas as it is; a
\* submission that publicLimiter let through and that reaches the cooldown
\* test while every idea of its device is at least the cooldown old (or the
\* device has none) goes on to the INSERT, and the INSERT adds its row and is
\* answered 200
C24_RejectionsLeaveCooldownAlone ==
  [][ \A i \in DOMAIN idea :
        /\ (req'[i] # req[i] /\ req'[i].pc = "done" /\ req'[i].status \in { 400, 429 })
             => ideas' = ideas
        /\ (idea'[i] # idea[i] /\ idea'[i].pc = "done" /\ idea'[i].status \in { 400, 429 })
             => ideas' = ideas
        /\ (idea[i].pc = "check" /\ idea'[i] # idea[i]
               /\ \A k \in IdeasOf(idea[i].deviceHash) :
                     clock - DateParse(ideas[k].created_at) >= CooldownMs)
             => idea'[i].pc = "insert"
        /\ (idea[i].pc = "insert" /\ idea'[i] # idea[i])
             => /\ idea'[i].pc = "done" /\ idea'[i].status = 200
                /\ Len(ideas') = Len(ideas) + 1
                /\ ideas'[Len(ideas')].device_hash = idea[i].deviceHash ]_vars

\* a device had an idea accepted, was refused in the last second of the
\* window (retry_after_sec = 1), and was accepted again once the window was over
C24_Witness ==
  \E i \in DOMAIN idea :
    /\ idea[i].pc = "done" /\ idea[i].status = 429 /\ idea[i].retry_after_sec = 1
    /\ \E j, k \in IdeasOf(idea[i].deviceHash) :
          DateParse(ideas[k].created_at) - DateParse(ideas[j].created_at) = CooldownMs

\* the request of slot i has been answered, by the middleware chain or by
\* its handler, and whether the answer was 429
Answered(i) == req[i].pc = "done" \/ idea[i].pc = "done"
Refused429(i) ==
  \/ req[i].pc = "done" /\ req[i].status = 429
  \/ idea[i].pc = "done" /\ idea[i].status = 429

\* C25 as stated: two submissions that arrive at the same time from devices
\* that never had an idea accepted are both refused with 429 or both not,
\* whatever other devices have submitted
C25_SameHistorySameOutcome ==
  \A i, j \in { 1, 2 } :
    ( /\ req[i].route = RouteIdeas /\ req[j].route = RouteIdeas
      /\ Answered(i) /\ Answered(j)
      /\ req[i].at = req[j].at
      /\ IdeasOf(sha256(req[i].deviceId)) = {}
      /\ IdeasOf(sha256(req[j].deviceId)) = {} )
    => (Refused429(i) <=> Refused429(j))

\* C25: for a submission that publicLimiter let through, the handler looks up
\* the newest row among the ideas of the submitting device only (none: no
\* cooldown), and its answer to the cooldown test, 429 with retry_after_sec
\* or the INSERT, is fixed by created_at of that row and the clock
C25_CooldownFromOwnIdeasOnly ==
  [][ \A i \in DOMAIN idea :
        /\ (idea[i].pc = "idle" /\ idea'[i].pc = "check")
             => LET mine == IdeasOf(idea'[i].deviceHash)
                IN /\ idea'[i].deviceHash = sha256(req[i].deviceId)
                   /\ idea'[i].last \in mine \cup { 0 }
                   /\ \A k \in mine : k <= idea'[i].last
        /\ (idea[i].pc = "check" /\ idea'[i] # idea[i])
             => LET last == idea[i].last
                    left == CooldownMs - (clock - DateParse(ideas[last].created_at))
                IN /\ last # 0 => ideas[last].device_hash = idea[i].deviceHash
                   /\ IF last # 0 /\ left > 0
                      THEN /\ idea'[i].pc = "done" /\ idea'[i].status = 429
                           /\ idea'[i].retry_after_sec = CeilDiv(left, MsPerSec)
                      ELSE idea'[i].pc = "insert" ]_vars

\* device B had an idea accepted half a second after device A had
C25_Witness ==
  /\ Len(ideas) = 2
  /\ ideas[1].device_hash # ideas[2].device_hash
  /\ DateParse(ideas[2].created_at) - DateParse(ideas[1].created_at) = 500
  /\ \E i \in { 1, 2 } :
        /\ idea[i].pc = "done" /\ idea[i].status = 200
        /\ idea[i].deviceHash = ideas[2].device_hash
        /\ idea_seen[2] = 0

\* C26: a same-origin GET of an API path outside /api/public/ is never
\* answered from a cache, and the page gets the admin's answer only when the
\* cookie sent with the request passes requireAdmin at that moment
C26_AdminApiNeverFromCache ==
  \A w \in SwSlots :
    ( /\ sw[w].pc = "done" /\ sw[w].method = "GET" /\ sw[w].sameOrigin
      /\ UnderApi(sw[w].path) /\ ~ UnderApiPublic(sw[w].path) )
    => /\ ~ sw[w].fromCache
       /\ sw[w].response.body = "admin" => requireAdmin(sw[w].token, sw[w].at).next

\* the state the server keeps between requests
ServerState ==
  << poll, poll_votes, ideas, idea_seen, push_subscriptions, daily_connections,
     info_blocks, issued, ADMIN_PASSWORD_HASH, hits,
     VAPID_PUBLIC_KEY, VAPID_PRIVATE_KEY, webpushModule >>

\* C27: a logout changes nothing the server keeps and, when it gets past the
\* device-id middleware, is answered 200 with the cookie cleared; a request to
\* an admin route that carries a token issued by a login is let through by
\* requireAdmin whenever the second of its arrival is before the token's exp,
\* whether or not a logout has taken place
C27_LogoutRevokesNothing ==
  [][ /\ \A l \in DOMAIN logout :
            logout'[l] # logout[l]
              => /\ ServerState' = ServerState
                 /\ req' = req /\ login' = login
                 /\ logout'[l].status = 200 <=> logout'[l].clearCookie
      /\ \A r \in DOMAIN req, i \in issued :
            ( /\ req'[r] # req[r] /\ Guarded(req'[r])
              /\ req'[r].token = i.token
              /\ clock \div MsPerSec < i.token[1].exp )
            => /\ req'[r].next /\ req'[r].admin
               /\ req'[r].status \in { 0, 200 } ]_vars

\* after a logout that cleared the cookie, a request that still carried the
\* token of the earlier login was let through
C27_Witness ==
  \E l \in DOMAIN logout, r \in DOMAIN req, i \in issued :
    /\ logout[l].pc = "done" /\ logout[l].clearCookie
    /\ i.at <= logout[l].at
    /\ Guarded(req[r]) /\ req[r].token = i.token
    /\ req[r].at > logout[l].at
    /\ req[r].next /\ req[r].admin
====
